---- MODULE Spec2Model ----
(***************************************************************************)
(* Model of .github/scripts/assign-reviewers.js: one run of the reviewer   *)
(* assignment pipeline for one pull-request event.                         *)
(*                                                                         *)
(* A JavaScript Set is modelled as a duplicate-free sequence (a Set        *)
(* iterates in insertion order).  File paths and ownership patterns are    *)
(* sequences of one-character strings so that includes('*'),               *)
(* endsWith('/'), startsWith and minimatch are computed, not assumed.      *)
(* Platform responses (listFiles, blame, permission, membership,           *)
(* requestReviewers, createComment) and the wall clock are chosen          *)
(* nondeterministically when the call is made.                             *)
(***************************************************************************)
EXTENDS Integers, Sequences, FiniteSets, TLC

\* ---------------------------------------------------------------- bounds
MaxFiles == 2
MaxRanges == 2
MaxReviewersCfg == 1
MinReviewersCfg == 1
MaxPatterns == 2
MaxBlameRanges == 3

\* ------------------------------------------------------- generic helpers
Range(s) == {s[i] : i \in 1..Len(s)}

Min2(a, b) == IF a < b THEN a ELSE b

Max2(a, b) == IF a > b THEN a ELSE b

SeqsUpTo(S, n) == UNION {[1..k -> S] : k \in 0..n}

\* Set.prototype.add on an insertion-ordered set
SetAdd(s, x) == IF x \in Range(s) THEN s ELSE Append(s, x)

\* xs.forEach(r => set.add(r))
RECURSIVE AddAll(_, _)
AddAll(s, xs) == IF xs = <<>> THEN s ELSE AddAll(SetAdd(s, Head(xs)), Tail(xs))

\* Set.prototype.delete
SetDelete(s, x) == SelectSeq(s, LAMBDA y : y # x)

\* [...new Set(array)]
Dedupe(xs) == AddAll(<<>>, xs)

\* Array.prototype.slice(0, end), negative end counted from the back
Slice(s, end) ==
  LET k == IF end < 0 THEN Max2(Len(s) + end, 0) ELSE Min2(end, Len(s))
  IN  SubSeq(s, 1, k)

\* ------------------------------------------------------ strings as chars
\* String.prototype.includes(c) for a one-character needle
Includes(str, c) == \E i \in 1..Len(str) : str[i] = c

\* String.prototype.endsWith(c) for a one-character suffix
EndsWith(str, c) == Len(str) > 0 /\ str[Len(str)] = c

\* String.prototype.startsWith(prefix)
StartsWith(str, prefix) ==
  Len(prefix) <= Len(str) /\ SubSeq(str, 1, Len(prefix)) = prefix

Take(str, n) == SubSeq(str, 1, n)

Drop(str, n) == SubSeq(str, n + 1, Len(str))

\* String.prototype.startsWith(prefix, position), positions from 1
StartsWithAt(str, prefix, i) ==
  /\ i + Len(prefix) - 1 <= Len(str)
  /\ SubSeq(str, i, i + Len(prefix) - 1) = prefix

\* String.prototype.indexOf(c, from), positions from 1, 0 when absent
IndexFrom(str, c, from) ==
  LET hits == {i \in from..Len(str) : str[i] = c}
  IN  IF hits = {} THEN 0 ELSE CHOOSE i \in hits : \A j \in hits : i <= j

\* String.prototype.split(c) for a one-character separator
RECURSIVE Split(_, _)
Split(str, c) ==
  LET At(i) == IF i = 0 THEN <<str>>
               ELSE <<Take(str, i - 1)>> \o Split(Drop(str, i), c)
  IN  At(IndexFrom(str, c, 1))

\* array.join('') of a list of strings
RECURSIVE Concat(_)
Concat(strs) == IF strs = <<>> THEN <<>> ELSE Head(strs) \o Concat(Tail(strs))

\* the printable characters in code order, from the space (code 32); the
\* grave accent (code 96) is written <grave>
Ascii ==
  <<" ", "!", "\"", "#", "$", "%", "&", "'", "(", ")", "*", "+",
     ",", "-", ".", "/", "0", "1", "2", "3", "4", "5", "6", "7",
     "8", "9", ":", ";", "<", "=", ">", "?", "@", "A", "B", "C",
     "D", "E", "F", "G", "H", "I", "J", "K", "L", "M", "N", "O",
     "P", "Q", "R", "S", "T", "U", "V", "W", "X", "Y", "Z", "[",
     "\\", "]", "^", "_", "<grave>", "a", "b", "c", "d", "e", "f", "g",
     "h", "i", "j", "k", "l", "m", "n", "o", "p", "q", "r", "s",
     "t", "u", "v", "w", "x", "y", "z", "{", "|", "}", "~" >>

\* String.prototype.charCodeAt(0)
CharCode(c) == 31 + CHOOSE i \in 1..Len(Ascii) : Ascii[i] = c

\* String.fromCharCode(n)
FromCharCode(n) == Ascii[n - 31]

CharsBetween(lo, hi) == {Ascii[k] : k \in (CharCode(lo) - 31)..(CharCode(hi) - 31)}

DigitChars == CharsBetween("0", "9")

Letters == CharsBetween("A", "Z") \cup CharsBetween("a", "z")

\* ------------------------------------- minimatch: brace expansion
\* line 1 requires the minimatch package; line 120 calls it with no options.
\* The definitions follow the package's code (version 9, POSIX paths) and the
\* brace-expansion and balanced-match packages it calls.
\* the tokens that stand for an escaped character while braces are expanded
EscapeTokens ==
  [c \in {"\\", "{", "}", ",", "."} |->
     CASE c = "\\" -> "<slash>"
       [] c = "{"  -> "<open>"
       [] c = "}"  -> "<close>"
       [] c = ","  -> "<comma>"
       [] c = "."  -> "<period>"]

RECURSIVE escapeBraces(_)
escapeBraces(str) ==
  IF str = <<>> THEN <<>>
  ELSE IF Len(str) >= 2 /\ str[1] = "\\" /\ str[2] \in DOMAIN EscapeTokens
       THEN <<EscapeTokens[str[2]]>> \o escapeBraces(Drop(str, 2))
       ELSE <<Head(str)>> \o escapeBraces(Tail(str))

\* the escaped character comes back without its backslash
unescapeBraces(str) ==
  [k \in 1..Len(str) |->
     IF \E c \in DOMAIN EscapeTokens : EscapeTokens[c] = str[k]
     THEN CHOOSE c \in DOMAIN EscapeTokens : EscapeTokens[c] = str[k]
     ELSE str[k]]

\* balanced-match: the loop of range('{', '}', str)
RECURSIVE RangeLoop(_, _, _, _, _, _, _)
RangeLoop(str, i, ai, bi, begs, left, right) ==
  LET Step(opened, found) ==
        \* found is the next '{' after an opening one, the next '}' otherwise
        LET ai2    == IF opened THEN found ELSE ai
            bi2    == IF opened THEN bi ELSE found
            shrink == ~opened /\ begs # <<>> /\ begs[Len(begs)] < left
        IN  RangeLoop(str, IF ai2 < bi2 /\ ai2 >= 1 THEN ai2 ELSE bi2, ai2, bi2,
                      IF opened THEN Append(begs, i)
                      ELSE IF begs = <<>> THEN begs ELSE SubSeq(begs, 1, Len(begs) - 1),
                      IF shrink THEN begs[Len(begs)] ELSE left,
                      IF shrink THEN bi ELSE right)
  IN  IF i < 1 THEN (IF begs # <<>> THEN <<left, right>> ELSE <<0, 0>>)
      ELSE IF i # ai /\ Len(begs) = 1 THEN <<begs[1], bi>>
      ELSE Step(i = ai, IndexFrom(str, IF i = ai THEN "{" ELSE "}", i + 1))

\* balanced('{', '}', str)
balanced(str) ==
  LET Result(r) ==
        IF r[1] = 0
        THEN [ok |-> FALSE, pre |-> <<>>, body |-> <<>>, post |-> <<>>]
        ELSE [ok |-> TRUE, pre |-> SubSeq(str, 1, r[1] - 1),
              body |-> SubSeq(str, r[1] + 1, r[2] - 1),
              post |-> SubSeq(str, r[2] + 1, Len(str))]
      Close(ai, bi) ==
        Result(IF ai >= 1 /\ bi >= 1
               THEN RangeLoop(str, ai, ai, bi, <<>>, Len(str) + 1, 0)
               ELSE <<0, 0>>)
      Open(ai) == Close(ai, IF ai = 0 THEN 0 ELSE IndexFrom(str, "}", ai + 1))
  IN  Open(IndexFrom(str, "{", 1))

RECURSIVE parseCommaParts(_)
parseCommaParts(str) ==
  LET Join(m, p, postParts) ==
        IF m.post # <<>>
        THEN [p EXCEPT ![Len(p)] = @ \o <<"{">> \o m.body \o <<"}">> \o Head(postParts)]
             \o Tail(postParts)
        ELSE [p EXCEPT ![Len(p)] = @ \o <<"{">> \o m.body \o <<"}">>]
      Parts(m) ==
        Join(m, Split(IF m.ok THEN m.pre ELSE str, ","),
             IF m.ok THEN parseCommaParts(m.post) ELSE << <<>> >>)
  IN  IF str = <<>> THEN << <<>> >>
      ELSE LET Go(m) == IF m.ok THEN Parts(m) ELSE Split(str, ",")
           IN  Go(balanced(str))

\* /^-?\d+$/
IsInteger(str) ==
  LET digits == IF str # <<>> /\ Head(str) = "-" THEN Tail(str) ELSE str
  IN  digits # <<>> /\ \A k \in 1..Len(digits) : digits[k] \in DigitChars

RECURSIVE ParseDigits(_)
ParseDigits(str) ==
  IF str = <<>> THEN 0
  ELSE 10 * ParseDigits(Take(str, Len(str) - 1)) + (CharCode(str[Len(str)]) - CharCode("0"))

\* numeric(str): parseInt(str, 10), or the character code of a letter
numeric(str) ==
  IF IsInteger(str)
  THEN (IF Head(str) = "-" THEN 0 - ParseDigits(Tail(str)) ELSE ParseDigits(str))
  ELSE CharCode(str[1])

\* String(i)
RECURSIVE NatToString(_)
NatToString(n) ==
  IF n < 10 THEN <<FromCharCode(CharCode("0") + n)>>
  ELSE NatToString(n \div 10) \o <<FromCharCode(CharCode("0") + (n % 10))>>

IntToString(i) == IF i < 0 THEN <<"-">> \o NatToString(0 - i) ELSE NatToString(i)

\* /^-?0\d/
isPadded(str) ==
  LET digits == IF str # <<>> /\ Head(str) = "-" THEN Tail(str) ELSE str
  IN  Len(digits) >= 2 /\ digits[1] = "0" /\ digits[2] \in DigitChars

\* the bodies x..y and x..y..incr of a sequence, split at the double dots
SequenceParts(body) ==
  LET dots == {i \in 1..(Len(body) - 1) : body[i] = "." /\ body[i + 1] = "."}
  IN  IF dots = {} THEN <<body>>
      ELSE LET i    == CHOOSE d \in dots : \A e \in dots : d <= e
               more == {j \in dots : j >= i + 2}
           IN  IF more = {} THEN <<Take(body, i - 1), Drop(body, i + 1)>>
               ELSE LET j == CHOOSE d \in more : \A e \in more : d <= e
                    IN  <<Take(body, i - 1), SubSeq(body, i + 2, j - 1), Drop(body, j + 1)>>

isNumericSequence(body) ==
  LET Test(n) == Len(n) \in {2, 3} /\ \A k \in 1..Len(n) : IsInteger(n[k])
  IN  Test(SequenceParts(body))

isAlphaSequence(body) ==
  LET Test(n) == /\ Len(n) \in {2, 3}
                 /\ \A k \in {1, 2} : Len(n[k]) = 1 /\ n[k][1] \in Letters
                 /\ (Len(n) = 3 => IsInteger(n[3]))
  IN  Test(SequenceParts(body))

RECURSIVE SequenceSteps(_, _, _, _)
SequenceSteps(i, y, incr, reverse) ==
  IF (reverse /\ i < y) \/ (~reverse /\ i > y) THEN <<>>
  ELSE <<i>> \o SequenceSteps(IF reverse THEN i - incr ELSE i + incr, y, incr, reverse)

Zeros(n) == [k \in 1..n |-> "0"]

\* the strings of {x..y} and {x..y..incr}; with a step of 0 the loop
\* "for (i = x; test(i, y); i += incr)" never ends
SequenceItems(body, isAlpha) ==
  LET Padded(i, c, width, pad) ==
        IF pad /\ width > Len(c)
        THEN (IF i < 0 THEN <<"-">> \o Zeros(width - Len(c)) \o Tail(c)
              ELSE Zeros(width - Len(c)) \o c)
        ELSE c
      Letter(ch) == IF ch = "\\" THEN <<>> ELSE <<ch>>
      Items(steps, width, pad) ==
        [k \in 1..Len(steps) |->
           IF isAlpha THEN Letter(FromCharCode(steps[k]))
           ELSE Padded(steps[k], IntToString(steps[k]), width, pad)]
      Run(x, y, step, width, pad) ==
        IF step = 0 THEN [loops |-> TRUE, list |-> <<>>]
        ELSE [loops |-> FALSE,
              list |-> Items(SequenceSteps(x, y, IF step < 0 THEN 0 - step ELSE step, y < x),
                             width, pad)]
      From(n) ==
        Run(numeric(n[1]), numeric(n[2]), IF Len(n) = 3 THEN numeric(n[3]) ELSE 1,
            Max2(Len(n[1]), Len(n[2])), \E k \in 1..Len(n) : isPadded(n[k]))
  IN  From(SequenceParts(body))

\* /,(?!,).*\}/ on the text after the closing brace
PostClosesOptions(post) ==
  \E i \in 1..Len(post) :
    /\ post[i] = ","
    /\ (i < Len(post) => post[i + 1] # ",")
    /\ \E j \in (i + 1)..Len(post) : post[j] = "}"

\* pre + N[j] + post[k] for every j and k, an empty string left out at the top
Combine(pre, items, posts, keepEmpty) ==
  SelectSeq([k \in 1..(Len(items) * Len(posts)) |->
               pre \o items[((k - 1) \div Len(posts)) + 1]
                   \o posts[((k - 1) % Len(posts)) + 1]],
            LAMBDA e : keepEmpty \/ e # <<>>)

\* brace-expansion: expand(str, isTop); loops says that the call never
\* returns
RECURSIVE expand(_, _)
expand(str, isTop) ==
  LET Done(list) == [loops |-> FALSE, list |-> list]
      Never == [loops |-> TRUE, list |-> <<>>]
      Embrace(inner) == [k \in 1..Len(inner) |-> <<"{">> \o inner[k] \o <<"}">>]
      Each(list) == [k \in 1..Len(list) |-> expand(list[k], FALSE)]
      AllOf(m, post, outs) ==
        IF \E k \in 1..Len(outs) : outs[k].loops THEN Never
        ELSE Done(Combine(m.pre, Concat([k \in 1..Len(outs) |-> outs[k].list]),
                          post, ~isTop))
      Options(m, post, n, inner) ==
        IF Len(n) # 1 THEN AllOf(m, post, Each(n))
        ELSE IF inner.loops THEN Never
        ELSE IF Len(inner.list) = 1
        THEN Done([k \in 1..Len(post) |-> m.pre \o Embrace(inner.list)[1] \o post[k]])
        ELSE AllOf(m, post, Each(Embrace(inner.list)))
      Parts(m, post, n) ==
        Options(m, post, n, IF Len(n) = 1 THEN expand(n[1], FALSE) ELSE Done(<<>>))
      Sequence(m, post, items) ==
        IF items.loops THEN Never ELSE Done(Combine(m.pre, items.list, post, TRUE))
      Set(m, post, isAlpha, isSequence) ==
        IF EndsWith(m.pre, "$")
        THEN Done([k \in 1..Len(post) |-> m.pre \o <<"{">> \o m.body \o <<"}">> \o post[k]])
        ELSE IF ~isSequence /\ ~Includes(m.body, ",")
        THEN (IF PostClosesOptions(m.post)
              THEN expand(m.pre \o <<"{">> \o m.body \o <<EscapeTokens["}"]>> \o m.post, FALSE)
              ELSE Done(<<str>>))
        ELSE IF isSequence THEN Sequence(m, post, SequenceItems(m.body, isAlpha))
        ELSE Parts(m, post, parseCommaParts(m.body))
      Kind(m, post, isNumeric, isAlpha) ==
        IF post.loops THEN Never
        ELSE Set(m, post.list, isAlpha, isNumeric \/ isAlpha)
      Go(m) ==
        IF ~m.ok THEN Done(<<str>>)
        ELSE Kind(m, IF m.post # <<>> THEN expand(m.post, FALSE) ELSE Done(<< <<>> >>),
                  isNumericSequence(m.body), isAlphaSequence(m.body))
  IN  Go(balanced(str))

\* /\{(?:(?!\{).)*\}/
HasBraceSet(pattern) ==
  \E i, j \in 1..Len(pattern) :
    /\ i < j /\ pattern[i] = "{" /\ pattern[j] = "}"
    /\ \A k \in (i + 1)..(j - 1) : pattern[k] # "{"

\* Minimatch.braceExpand(): the patterns the braces stand for, unless the
\* expansion never returns
braceExpand(pattern) ==
  LET Unescaped(out) ==
        [loops |-> out.loops,
         set |-> {unescapeBraces(out.list[k]) : k \in 1..Len(out.list)}]
  IN  IF ~HasBraceSet(pattern) THEN [loops |-> FALSE, set |-> {pattern}]
      ELSE Unescaped(expand(escapeBraces(IF StartsWithAt(pattern, <<"{", "}">>, 1)
                                         THEN <<"\\", "{", "\\", "}">> \o Drop(pattern, 2)
                                         ELSE pattern), TRUE))

\* ------------------------------------- minimatch: one path portion
\* brace-expressions.js: the [: :] names with the text each puts into the
\* regular expression, whether that text needs the u flag, and whether it
\* is a negated one
posixClasses ==
  LET P(name) == <<"\\", "p", "{">> \o name \o <<"}">>
      C(name, unip, u, neg) ==
        [name |-> <<"[", ":">> \o name \o <<":", "]">>, unip |-> unip, u |-> u, neg |-> neg]
  IN  << C(<<"a", "l", "n", "u", "m">>,
           P(<<"L">>) \o P(<<"N", "l">>) \o P(<<"N", "d">>), TRUE, FALSE),
         C(<<"a", "l", "p", "h", "a">>, P(<<"L">>) \o P(<<"N", "l">>), TRUE, FALSE),
         C(<<"a", "s", "c", "i", "i">>,
           <<"\\", "x", "0", "0", "-", "\\", "x", "7", "f">>, FALSE, FALSE),
         C(<<"b", "l", "a", "n", "k">>, P(<<"Z", "s">>) \o <<"\\", "t">>, TRUE, FALSE),
         C(<<"c", "n", "t", "r", "l">>, P(<<"C", "c">>), TRUE, FALSE),
         C(<<"d", "i", "g", "i", "t">>, P(<<"N", "d">>), TRUE, FALSE),
         C(<<"g", "r", "a", "p", "h">>, P(<<"Z">>) \o P(<<"C">>), TRUE, TRUE),
         C(<<"l", "o", "w", "e", "r">>, P(<<"L", "l">>), TRUE, FALSE),
         C(<<"p", "r", "i", "n", "t">>, P(<<"C">>), TRUE, FALSE),
         C(<<"p", "u", "n", "c", "t">>, P(<<"P">>), TRUE, FALSE),
         C(<<"s", "p", "a", "c", "e">>,
           P(<<"Z">>) \o <<"\\", "t", "\\", "r", "\\", "n", "\\", "v", "\\", "f">>, TRUE, FALSE),
         C(<<"u", "p", "p", "e", "r">>, P(<<"L", "u">>), TRUE, FALSE),
         C(<<"w", "o", "r", "d">>,
           P(<<"L">>) \o P(<<"N", "l">>) \o P(<<"N", "d">>) \o P(<<"P", "c">>), TRUE, FALSE),
         C(<<"x", "d", "i", "g", "i", "t">>,
           <<"A", "-", "F", "a", "-", "f", "0", "-", "9">>, FALSE, FALSE) >>

\* s.replace(/[-[\]{}()*+?.,\\^$|#\s]/g, '\\$&') for one character
regExpEscape(c) ==
  IF c \in {"-", "[", "]", "{", "}", "(", ")", "*", "+", "?", ".", ",", "\\",
            "^", "$", "|", "#", " "}
  THEN <<"\\", c>> ELSE <<c>>

\* s.replace(/[[\]\\-]/g, '\\$&')
braceEscape(str) ==
  Concat([k \in 1..Len(str) |->
            IF str[k] \in {"[", "]", "\\", "-"} THEN <<"\\", str[k]>> ELSE <<str[k]>>])

\* what parseClass returns when the text at the position is not a class
NoClass == [src |-> <<>>, uflag |-> FALSE, consumed |-> 0, magic |-> FALSE]

\* brace-expressions.js parseClass(glob, position): the loop over the class
RECURSIVE ClassLoop(_, _, _)
ClassLoop(glob, pos, st) ==
  LET Never == [src |-> <<"$", ".">>, uflag |-> FALSE,
                consumed |-> Len(glob) - pos + 1, magic |-> TRUE]
      \* /^\\?.$/
      Single(r) == Len(r) = 1 \/ (Len(r) = 2 /\ r[1] = "\\")
      Sranges == <<"[">> \o (IF st.neg THEN <<"^">> ELSE <<>>) \o Concat(st.ranges) \o <<"]">>
      Snegs == <<"[">> \o (IF st.neg THEN <<>> ELSE <<"^">>) \o Concat(st.negs) \o <<"]">>
      Closed ==
        IF st.ranges = <<>> /\ st.negs = <<>> THEN Never
        ELSE IF st.negs = <<>> /\ Len(st.ranges) = 1 /\ Single(st.ranges[1]) /\ ~st.neg
        THEN [src |-> regExpEscape(st.ranges[1][Len(st.ranges[1])]), uflag |-> FALSE,
              consumed |-> st.i + 1 - pos, magic |-> FALSE]
        ELSE [src |-> IF st.ranges # <<>> /\ st.negs # <<>>
                      THEN <<"(">> \o Sranges \o <<"|">> \o Snegs \o <<")">>
                      ELSE IF st.ranges # <<>> THEN Sranges ELSE Snegs,
              uflag |-> st.u, consumed |-> st.i + 1 - pos, magic |-> TRUE]
      Named(cls) ==
        [st EXCEPT !.saw = TRUE, !.i = @ + Len(cls.name), !.u = @ \/ cls.u,
                   !.ranges = IF cls.neg THEN @ ELSE Append(@, cls.unip),
                   !.negs = IF cls.neg THEN Append(@, cls.unip) ELSE @]
      RangeEnd(c) ==
        [st EXCEPT !.saw = TRUE, !.esc = FALSE, !.rs = "", !.i = @ + 1,
                   !.ranges = IF CharCode(c) > CharCode(st.rs)
                              THEN Append(@, braceEscape(<<st.rs>>) \o <<"-">> \o braceEscape(<<c>>))
                              ELSE IF c = st.rs THEN Append(@, braceEscape(<<c>>))
                              ELSE @]
      \* the state after the character c, or the result when the loop ends
      Step(c, px) ==
        IF c \in {"!", "^"} /\ st.i = pos + 1
        THEN [go |-> TRUE, st |-> [st EXCEPT !.neg = TRUE, !.i = @ + 1], out |-> NoClass]
        ELSE IF c = "]" /\ st.saw /\ ~st.esc
        THEN [go |-> FALSE, st |-> st, out |-> Closed]
        ELSE IF c = "\\" /\ ~st.esc
        THEN [go |-> TRUE, out |-> NoClass,
              st |-> [st EXCEPT !.saw = TRUE, !.esc = TRUE, !.i = @ + 1]]
        ELSE IF px # {}
        THEN (IF st.rs # "" THEN [go |-> FALSE, st |-> st, out |-> Never]
              ELSE [go |-> TRUE, out |-> NoClass,
                    st |-> Named(posixClasses[CHOOSE k \in px : TRUE])])
        ELSE IF st.rs # ""
        THEN [go |-> TRUE, out |-> NoClass, st |-> RangeEnd(c)]
        ELSE IF StartsWithAt(glob, <<"-", "]">>, st.i + 1)
        THEN [go |-> TRUE, out |-> NoClass,
              st |-> [st EXCEPT !.saw = TRUE, !.esc = FALSE, !.i = @ + 2,
                                !.ranges = Append(@, braceEscape(<<c, "-">>))]]
        ELSE IF StartsWithAt(glob, <<"-">>, st.i + 1)
        THEN [go |-> TRUE, out |-> NoClass,
              st |-> [st EXCEPT !.saw = TRUE, !.esc = FALSE, !.rs = c, !.i = @ + 2]]
        ELSE [go |-> TRUE, out |-> NoClass,
              st |-> [st EXCEPT !.saw = TRUE, !.esc = FALSE, !.i = @ + 1,
                                !.ranges = Append(@, braceEscape(<<c>>))]]
      Go(r) == IF r.go THEN ClassLoop(glob, pos, r.st) ELSE r.out
  IN  IF st.i > Len(glob) THEN NoClass
      ELSE Go(Step(glob[st.i],
                   {k \in 1..Len(posixClasses) :
                      /\ glob[st.i] = "[" /\ ~st.esc
                      /\ StartsWithAt(glob, posixClasses[k].name, st.i)}))

\* parseClass(glob, position) for the '[' at pos: the text of the class in
\* the regular expression, whether it needs the u flag, the number of
\* characters of the glob it takes, and whether it is magic
parseClass(glob, pos) ==
  ClassLoop(glob, pos,
    [i |-> pos + 1, saw |-> FALSE, esc |-> FALSE, neg |-> FALSE, rs |-> "",
     ranges |-> <<>>, negs |-> <<>>, u |-> FALSE])

\* ------------------------------------- minimatch: the regular expression
reSpecials == {"(", ")", ".", "*", "{", "}", "+", "?", "[", "]", "^", "$", "\\", "!"}

qmark == <<"[", "^", "/", "]">>
star == qmark \o <<"*", "?">>
starNoEmpty == qmark \o <<"+", "?">>
\* (?!\.)
startNoDot == <<"(", "?", "!", "\\", ".", ")">>
\* (?!(?:^|/)\.\.?(?:$|/))
startNoTraversal ==
  <<"(", "?", "!", "(", "?", ":", "^", "|", "/", ")", "\\", ".", "\\", ".", "?",
    "(", "?", ":", "$", "|", "/", ")", ")">>

\* AST.#parseGlob(glob, hasMagic, noEmpty) from the character at g on: the
\* text of the regular expression, whether it is magic, and the u flag
RECURSIVE parseGlob(_, _, _)
parseGlob(glob, g, noEmpty) ==
  LET Plain(n, re) == [g |-> g + n, re |-> re, magic |-> FALSE, uflag |-> FALSE]
      Magic(re) == [g |-> g + 1, re |-> re, magic |-> TRUE, uflag |-> FALSE]
      Step(c, cls) ==
        IF c = "\\"
        THEN (IF g = Len(glob) THEN Plain(1, <<"\\", "\\">>)
              ELSE Plain(2, (IF glob[g + 1] \in reSpecials THEN <<"\\">> ELSE <<>>)
                             \o <<glob[g + 1]>>))
        ELSE IF cls.consumed > 0
        THEN [g |-> g + cls.consumed, re |-> cls.src, magic |-> cls.magic,
              uflag |-> cls.uflag]
        ELSE IF c = "*"
        THEN Magic(IF noEmpty /\ glob = <<"*">> THEN starNoEmpty ELSE star)
        ELSE IF c = "?" THEN Magic(qmark)
        ELSE Plain(1, regExpEscape(c))
      Join(r, more) ==
        [re |-> r.re \o more.re, magic |-> r.magic \/ more.magic,
         uflag |-> r.uflag \/ more.uflag]
      Go(r) == Join(r, parseGlob(glob, r.g, noEmpty))
  IN  IF g > Len(glob) THEN [re |-> <<>>, magic |-> FALSE, uflag |-> FALSE]
      ELSE Go(Step(glob[g], IF glob[g] = "[" THEN parseClass(glob, g) ELSE NoClass))

\* ------------------------------------- minimatch: extglob syntax tree

StrNode(text) == [t |-> "str", c |-> text, k |-> <<>>, e |-> FALSE]

\* AST.#parseAST: where the text that starts at i stops being plain
RECURSIVE ScanChunk(_, _, _, _, _, _, _)
ScanChunk(str, i, escaping, inBrace, braceStart, braceNeg, inExt) ==
  LET \* the flags after the character c, or the reason to stop at it
      Step(c) ==
        IF escaping \/ c = "\\"
        THEN [why |-> "", escaping |-> ~escaping, inBrace |-> inBrace,
              braceStart |-> braceStart, braceNeg |-> braceNeg]
        ELSE IF inBrace
        THEN (IF i = braceStart + 1
              THEN [why |-> "", escaping |-> FALSE, inBrace |-> TRUE,
                    braceStart |-> braceStart, braceNeg |-> braceNeg \/ c \in {"^", "!"}]
              ELSE [why |-> "", escaping |-> FALSE,
                    inBrace |-> ~(c = "]" /\ ~(i = braceStart + 2 /\ braceNeg)),
                    braceStart |-> braceStart, braceNeg |-> braceNeg])
        ELSE IF c = "["
        THEN [why |-> "", escaping |-> FALSE, inBrace |-> TRUE,
              braceStart |-> i, braceNeg |-> FALSE]
        ELSE IF c \in {"!", "?", "+", "*", "@"} /\ i < Len(str) /\ str[i + 1] = "("
        THEN [why |-> "ext", escaping |-> FALSE, inBrace |-> FALSE,
              braceStart |-> braceStart, braceNeg |-> braceNeg]
        ELSE IF inExt /\ c \in {"|", ")"}
        THEN [why |-> c, escaping |-> FALSE, inBrace |-> FALSE,
              braceStart |-> braceStart, braceNeg |-> braceNeg]
        ELSE [why |-> "", escaping |-> FALSE, inBrace |-> FALSE,
              braceStart |-> braceStart, braceNeg |-> braceNeg]
      Go(r) ==
        IF r.why # "" THEN [pos |-> i, why |-> r.why]
        ELSE ScanChunk(str, i + 1, r.escaping, r.inBrace, r.braceStart, r.braceNeg, inExt)
  IN  IF i > Len(str) THEN [pos |-> i, why |-> "end"]
      ELSE Go(Step(str[i]))

\* AST.#parseAST: the parts from position i up to the end of the text or, in
\* an extglob, up to the next '|' or ')'; an unfinished extglob is plain text
RECURSIVE ParseParts(_, _, _)
RECURSIVE ParseAlts(_, _, _, _)
ParseParts(str, i, inExt) ==
  LET Lit(acc) == IF acc = <<>> THEN <<>> ELSE <<StrNode(acc)>>
      Unfinished(lit, ex) ==
        [parts |-> lit \o <<ex.node>>, i |-> Len(str) + 1,
         why |-> "end", accEmpty |-> TRUE]
      Joined(lit, ex, r) == [r EXCEPT !.parts = lit \o <<ex.node>> \o @]
      Ext(lit, ex) ==
        IF ex.ok THEN Joined(lit, ex, ParseParts(str, ex.i, inExt))
        ELSE Unfinished(lit, ex)
      Chunk(sc, acc) ==
        IF sc.why = "ext" THEN Ext(Lit(acc), ParseAlts(str, sc.pos, sc.pos + 2, <<>>))
        ELSE [parts |-> Lit(acc), i |-> sc.pos, why |-> sc.why, accEmpty |-> acc = <<>>]
      Go(sc) == Chunk(sc, SubSeq(str, i, sc.pos - 1))
  IN  Go(ScanChunk(str, i, FALSE, FALSE, 0, FALSE, inExt))

ParseAlts(str, q, i, alts) ==
  LET Go(r) ==
        IF r.why = "|" THEN ParseAlts(str, q, r.i + 1, Append(alts, r.parts))
        ELSE IF r.why = ")"
        THEN [ok |-> TRUE, i |-> r.i + 1,
              node |-> [t |-> str[q], c |-> SubSeq(str, q, r.i),
                        k |-> Append(alts, r.parts), e |-> r.accEmpty]]
        ELSE [ok |-> FALSE, i |-> Len(str) + 1,
              node |-> [t |-> "seq", c |-> <<>>,
                        k |-> << <<StrNode(SubSeq(str, q, Len(str)))>> >>, e |-> FALSE]]
  IN  Go(ParseParts(str, i, TRUE))

\* AST.toRegExpSource of a node without a type (the root, an alternative of
\* an extglob, an unfinished extglob): st and en are isStart() and isEnd(),
\* negParent says that the parent is a !( ), rest is what #fillNegs copies
\* into the alternatives of a !( ) below: the parts that follow in the pattern
RECURSIVE toRegExpSource(_, _, _, _, _, _)
RECURSIVE PartsSource(_, _, _, _, _, _, _)
RECURSIVE ExtglobSource(_, _, _, _, _)
toRegExpSource(parts, st, en, dot, negParent, rest) ==
  LET aps == {"[", "."}
      At(src, k) == IF k <= Len(src) THEN src[k] ELSE ""
      Start(src) ==
        IF \/ ~st \/ parts = <<>> \/ Head(parts).t # "str"
           \/ (Len(parts) = 1 /\ Head(parts).c \in {<<".">>, <<".", ".">>})
        THEN <<>>
        ELSE IF \/ dot /\ At(src, 1) \in aps
                \/ StartsWith(src, <<"\\", ".">>) /\ At(src, 3) \in aps
                \/ StartsWith(src, <<"\\", ".", "\\", ".">>) /\ At(src, 5) \in aps
        THEN startNoTraversal
        ELSE IF ~dot /\ At(src, 1) \in aps THEN startNoDot
        ELSE <<>>
      \* (?:$|\/)
      End == IF en /\ negParent
             THEN <<"(", "?", ":", "$", "|", "\\", "/", ")">> ELSE <<>>
      Final(r) == [r EXCEPT !.re = Start(r.re) \o r.re \o End]
  IN  Final(PartsSource(parts, 1, st, en, dot, rest, TRUE))

\* the texts of the parts from the j-th on, joined; negsBefore says that
\* every part before the j-th is a !( )
PartsSource(parts, j, st, en, dot, rest, negsBefore) ==
  LET Join(r, more) ==
        [re |-> r.re \o more.re, magic |-> r.magic \/ more.magic,
         uflag |-> r.uflag \/ more.uflag]
      One(p) ==
        IF p.t = "str" THEN parseGlob(p.c, 1, st /\ en)
        ELSE IF p.t = "seq"
        THEN toRegExpSource(p.k[1], st /\ negsBefore, en, dot, FALSE, <<>>)
        ELSE ExtglobSource(p, st /\ negsBefore, en /\ j = Len(parts), dot,
                           SubSeq(parts, j + 1, Len(parts)) \o rest)
  IN  IF j > Len(parts) THEN [re |-> <<>>, magic |-> FALSE, uflag |-> FALSE]
      ELSE Join(One(parts[j]),
                PartsSource(parts, j + 1, st, en, dot, rest,
                            negsBefore /\ parts[j].t = "!"))

\* AST.toRegExpSource of an extglob; dot is set exactly in the second pass
\* over the body of a repeated extglob, when an extglob found invalid in the
\* first pass has become a node without a type that holds its own text
ExtglobSource(n, st, en, dot, rest) ==
  LET neg == n.t = "!"
      Alt(a, d) ==
        toRegExpSource(IF neg THEN n.k[a] \o rest ELSE n.k[a], st, neg \/ en, d, neg,
                       IF neg THEN <<>> ELSE rest)
      Bars(res) ==
        IF res = <<>> THEN <<>>
        ELSE Head(res) \o Concat([k \in 1..(Len(res) - 1) |-> <<"|">> \o res[k + 1]])
      \* #partsToRegExp(d)
      Body(d) ==
        LET Of(srcs) ==
              [re |-> Bars(SelectSeq([a \in 1..Len(srcs) |-> srcs[a].re],
                                     LAMBDA x : ~(st /\ en) \/ x # <<>>)),
               uflag |-> \E a \in 1..Len(srcs) : srcs[a].uflag]
        IN  Of([a \in 1..Len(n.k) |-> Alt(a, d)])
      Close(twice) ==
        IF neg THEN <<")", ")">> \o (IF st /\ ~dot THEN startNoDot ELSE <<>>) \o star \o <<")">>
        ELSE IF n.t = "@" THEN <<")">>
        ELSE IF n.t = "?" THEN <<")", "?">>
        ELSE IF n.t = "+" /\ twice THEN <<")">>
        ELSE IF n.t = "*" /\ twice THEN <<")", "?">>
        ELSE <<")", n.t>>
      Valid(body, twice, uflag) ==
        [re |-> IF neg /\ n.e
                THEN (IF st /\ ~dot THEN startNoDot ELSE <<>>) \o starNoEmpty
                ELSE (IF neg THEN <<"(", "?", ":", "(", "?", "!", "(", "?", ":">>
                      ELSE <<"(", "?", ":">>) \o body \o Close(twice),
         magic |-> TRUE, uflag |-> uflag]
      Both(body, again) ==
        IF again.re # <<>> /\ again.re # body.re
        THEN Valid(<<"(", "?", ":">> \o body.re \o <<")", "(", "?", ":">> \o again.re
                     \o <<")", "*", "?">>, TRUE, body.uflag \/ again.uflag)
        ELSE Valid(body.re, FALSE, body.uflag \/ again.uflag)
      Go(body) ==
        IF st /\ en /\ body.re = <<>> /\ ~neg
        THEN (IF dot THEN toRegExpSource(<<StrNode(n.c)>>, st, en, dot, FALSE, <<>>)
              ELSE [re |-> n.c, magic |-> FALSE, uflag |-> FALSE])
        ELSE Both(body, IF n.t \in {"*", "+"} /\ ~dot THEN Body(TRUE)
                        ELSE [re |-> <<>>, uflag |-> FALSE])
  IN  Go(Body(dot))

\* unescape(s): s.replace(/\[([^\/\\])\]/g, '$1').replace(/\\([^\/])/g, '$1')
unescape(s) ==
  LET RECURSIVE Brackets(_)
      Brackets(t) ==
        IF t = <<>> THEN <<>>
        ELSE IF Len(t) >= 3 /\ t[1] = "[" /\ t[2] \notin {"/", "\\"} /\ t[3] = "]"
        THEN <<t[2]>> \o Brackets(Drop(t, 3))
        ELSE <<Head(t)>> \o Brackets(Tail(t))
      RECURSIVE Escapes(_)
      Escapes(t) ==
        IF t = <<>> THEN <<>>
        ELSE IF Len(t) >= 2 /\ t[1] = "\\" /\ t[2] # "/"
        THEN <<t[2]>> \o Escapes(Drop(t, 2))
        ELSE <<Head(t)>> \o Escapes(Tail(t))
  IN  Escapes(Brackets(s))

\* ------------------------------------- the regular expressions built
\* the index of the ']' that closes the class opened at i, 0 when none does
RECURSIVE ClassEnd(_, _)
ClassEnd(re, i) ==
  IF i + 1 > Len(re) THEN 0
  ELSE IF re[i + 1] = "]" THEN i + 1
  ELSE ClassEnd(re, IF re[i + 1] = "\\" THEN i + 2 ELSE i + 1)

\* the index of the ')' that closes the group opened at i, 0 when none does
RECURSIVE GroupEnd(_, _, _)
GroupEnd(re, i, depth) ==
  LET After(ce) == IF ce = 0 THEN 0 ELSE GroupEnd(re, ce, depth)
  IN  IF i + 1 > Len(re) THEN 0
      ELSE IF re[i + 1] = ")" /\ depth = 1 THEN i + 1
      ELSE IF re[i + 1] = "[" THEN After(ClassEnd(re, i + 1))
      ELSE GroupEnd(re, IF re[i + 1] = "\\" THEN i + 2 ELSE i + 1,
                    IF re[i + 1] = "(" THEN depth + 1
                    ELSE IF re[i + 1] = ")" THEN depth - 1 ELSE depth)

\* the index of the first '|' of re[k..j-1] outside classes and groups, j
\* when there is none
RECURSIVE NextBar(_, _, _)
NextBar(re, k, j) ==
  IF k >= j THEN j
  ELSE IF re[k] = "|" THEN k
  ELSE NextBar(re, IF re[k] = "\\" THEN k + 2
                   ELSE IF re[k] = "[" THEN ClassEnd(re, k) + 1
                   ELSE IF re[k] = "(" THEN GroupEnd(re, k, 1) + 1
                   ELSE k + 1, j)

\* whether new RegExp(re, u ? 'u' : '') throws a SyntaxError: a quantifier
\* with nothing to repeat, an escape the u flag does not allow, a group or
\* class left open; prev is what a quantifier would apply to
RECURSIVE RegExpThrows(_, _, _, _, _)
RegExpThrows(re, i, u, prev, open) ==
  LET Bad == [bad |-> TRUE, i |-> i, prev |-> prev, open |-> open]
      To(k, p, o) == [bad |-> FALSE, i |-> k, prev |-> p, open |-> o]
      Step(c, ce) ==
        IF c = "\\"
        THEN (IF i = Len(re) THEN Bad
              ELSE IF u /\ re[i + 1] \notin
                          {"^", "$", "\\", ".", "*", "+", "?", "(", ")", "[", "]", "{",
                           "}", "|", "/", "d", "D", "s", "S", "w", "W", "b", "B", "t",
                           "n", "r", "v", "f", "0", "c", "x", "u", "p", "P", "k"}
              THEN Bad
              ELSE To(i + 2, "atom", open))
        ELSE IF c = "["
        THEN (IF ce = 0 THEN Bad ELSE To(ce + 1, "atom", open))
        ELSE IF c = "("
        THEN (IF StartsWithAt(re, <<"?", ":">>, i + 1)
              THEN To(i + 3, "none", Append(open, "group"))
              ELSE IF StartsWithAt(re, <<"?", "!">>, i + 1)
              THEN To(i + 3, "none", Append(open, "lookahead"))
              ELSE IF StartsWithAt(re, <<"?">>, i + 1) THEN Bad
              ELSE To(i + 1, "none", Append(open, "group")))
        ELSE IF c = ")"
        THEN (IF open = <<>> THEN Bad
              ELSE To(i + 1, IF open[Len(open)] = "lookahead" /\ u THEN "none" ELSE "atom",
                      SubSeq(open, 1, Len(open) - 1)))
        ELSE IF c \in {"|", "^", "$"} THEN To(i + 1, "none", open)
        ELSE IF c \in {"*", "+", "?"}
        THEN (IF prev = "atom" THEN To(i + 1, "quantifier", open)
              ELSE IF prev = "quantifier" /\ c = "?" THEN To(i + 1, "none", open)
              ELSE Bad)
        ELSE IF c \in {"{", "}", "]"} /\ u THEN Bad
        ELSE To(i + 1, "atom", open)
      Go(r) == r.bad \/ RegExpThrows(re, r.i, u, r.prev, r.open)
  IN  IF i > Len(re) THEN open # <<>>
      ELSE Go(Step(re[i], IF re[i] = "[" THEN ClassEnd(re, i) ELSE 0))

\* the characters of a Unicode category among the printable ones
Category(name) ==
  CASE name = <<"L">>      -> Letters
    [] name = <<"L", "l">> -> CharsBetween("a", "z")
    [] name = <<"L", "u">> -> CharsBetween("A", "Z")
    [] name = <<"N", "d">> -> DigitChars
    [] name = <<"Z">>      -> {" "}
    [] name = <<"Z", "s">> -> {" "}
    [] name = <<"P">>      -> {"!", "\"", "#", "%", "&", "'", "(", ")", "*", ",", "-", ".", "/", ":", ";", "?", "@", "[", "\\", "]", "_", "{", "}"}
    [] name = <<"P", "c">> -> {"_"}
    [] OTHER               -> {}

\* whether the members re[m..a-1] of a class hold the character ch
RECURSIVE ClassHolds(_, _, _, _)
ClassHolds(re, m, a, ch) ==
  LET Hex(d) == IF d \in DigitChars THEN CharCode(d) - CharCode("0")
                ELSE CharCode(d) - CharCode("a") + 10
      Control(e) == CASE e = "t" -> 9 [] e = "n" -> 10 [] e = "v" -> 11
                      [] e = "f" -> 12 [] e = "r" -> 13
      \* the member at k: a category, or a character by its code
      Item(k) ==
        IF re[k] = "\\" /\ re[k + 1] = "p"
        THEN [set |-> Category(SubSeq(re, k + 3, IndexFrom(re, "}", k) - 1)),
              code |-> 0, next |-> IndexFrom(re, "}", k) + 1]
        ELSE IF re[k] = "\\" /\ re[k + 1] = "x"
        THEN [set |-> {}, code |-> 16 * Hex(re[k + 2]) + Hex(re[k + 3]), next |-> k + 4]
        ELSE IF re[k] = "\\" /\ re[k + 1] \in {"t", "n", "v", "f", "r"}
        THEN [set |-> {}, code |-> Control(re[k + 1]), next |-> k + 2]
        ELSE IF re[k] = "\\"
        THEN [set |-> {re[k + 1]}, code |-> CharCode(re[k + 1]), next |-> k + 2]
        ELSE [set |-> {re[k]}, code |-> CharCode(re[k]), next |-> k + 1]
      Upto(lo, hi) ==
        (lo.code <= CharCode(ch) /\ CharCode(ch) <= hi.code)
          \/ ClassHolds(re, hi.next, a, ch)
      Of(lo) ==
        IF lo.next + 1 < a /\ re[lo.next] = "-" THEN Upto(lo, Item(lo.next + 1))
        ELSE ch \in lo.set \/ ClassHolds(re, lo.next, a, ch)
  IN  IF m >= a THEN FALSE ELSE Of(Item(m))

\* whether the atom re[k..a], which is no group and no assertion, takes ch
AtomHolds(re, k, a, ch) ==
  IF re[k] = "[" THEN ClassHolds(re, IF re[k + 1] = "^" THEN k + 2 ELSE k + 1, a, ch)
                       # (re[k + 1] = "^")
  ELSE IF re[k] = "\\" THEN ch = re[k + 1]
  ELSE IF re[k] = "." THEN TRUE
  ELSE ch = re[k]

\* the index of the last character of the atom that begins at k
AtomEnd(re, k) ==
  IF re[k] = "\\" THEN k + 1
  ELSE IF re[k] = "[" THEN ClassEnd(re, k)
  ELSE IF re[k] = "(" THEN GroupEnd(re, k, 1)
  ELSE k

\* RegExp matching over re[i..j-1], a disjunction: the positions of s where
\* a match can end when it starts at a position of P
RECURSIVE MatchDisjunction(_, _, _, _, _)
RECURSIVE MatchAlternative(_, _, _, _, _)
RECURSIVE MatchAtom(_, _, _, _, _)
RECURSIVE MatchRepeat(_, _, _, _, _)
MatchDisjunction(re, i, j, s, P) ==
  LET Go(b) ==
        MatchAlternative(re, i, b, s, P)
          \cup (IF b < j THEN MatchDisjunction(re, b + 1, j, s, P) ELSE {})
  IN  Go(NextBar(re, i, j))

\* the terms of re[k..b-1] in turn: an atom and the quantifier after it
MatchAlternative(re, k, b, s, P) ==
  LET Quant(a) == IF a + 1 < b /\ re[a + 1] \in {"*", "+", "?"} THEN re[a + 1] ELSE ""
      Width(a) == IF Quant(a) = "" THEN 0
                  ELSE IF a + 2 < b /\ re[a + 2] = "?" THEN 2 ELSE 1
      \* once is where the atom can end when taken once
      Term(a, once) ==
        MatchAlternative(re, a + 1 + Width(a), b, s,
          IF Quant(a) = "" THEN once
          ELSE IF Quant(a) = "?" THEN P \cup once
          ELSE MatchRepeat(re, k, a, s, IF Quant(a) = "*" THEN P ELSE once))
  IN  IF k >= b \/ P = {} THEN P
      ELSE Term(AtomEnd(re, k), MatchAtom(re, k, AtomEnd(re, k), s, P))

\* the atom re[k..a] once: a group, a lookahead (?! ), an assertion, or a
\* character
MatchAtom(re, k, a, s, P) ==
  IF re[k] = "("
  THEN UNION {IF ~StartsWithAt(re, <<"?", "!">>, k + 1) THEN pe[2]
              ELSE IF pe[2] = {} THEN {pe[1]} ELSE {} :
                pe \in {<<p, MatchDisjunction(re, k + (IF re[k + 1] = "?" THEN 3 ELSE 1),
                                              a, s, {p})>> : p \in P}}
  ELSE IF re[k] = "^" THEN P \cap {1}
  ELSE IF re[k] = "$" THEN P \cap {Len(s) + 1}
  ELSE {p + 1 : p \in {q \in P : q <= Len(s) /\ AtomHolds(re, k, a, s[q])}}

\* the atom re[k..a] any number of times
MatchRepeat(re, k, a, s, P) ==
  LET Go(Q) == IF Q = P THEN P ELSE MatchRepeat(re, k, a, s, Q)
  IN  Go(P \cup MatchAtom(re, k, a, s, P))

\* RegExp.prototype.test(s): a match may start anywhere
RegExpTest(re, s) == MatchDisjunction(re, 1, Len(re) + 1, s, 1..(Len(s) + 1)) # {}

\* AST.fromGlob(pattern).toMMPattern(): the text to compare with when the
\* pattern has no magic, else the regular expression, which new RegExp may
\* refuse
toMMPattern(pattern) ==
  LET Made(r, re) ==
        IF ~r.magic THEN [kind |-> "string", src |-> unescape(r.re)]
        ELSE IF RegExpThrows(re, 1, r.uflag, "none", <<>>)
        THEN [kind |-> "throws", src |-> re]
        ELSE [kind |-> "regexp", src |-> re]
      Go(r) == Made(r, <<"^">> \o r.re \o <<"$">>)
  IN  Go(toRegExpSource(ParseParts(pattern, 1, FALSE).parts, TRUE, TRUE, FALSE, FALSE, <<>>))

\* the number of times c is repeated at the beginning of str
LeadingRun(str, c) ==
  LET First(other) ==
        IF other = {} THEN Len(str)
        ELSE (CHOOSE i \in other : \A j \in other : i <= j) - 1
  IN  First({i \in 1..Len(str) : str[i] # c})

\* [^+@!?\*\[\(]*
PlainExt(ext) == \A k \in 1..Len(ext) : ext[k] \notin {"+", "@", "!", "?", "*", "[", "("}

GLOBSTAR == <<"*", "*">>

\* Minimatch.parse(pattern) for one portion of a pattern: GLOBSTAR, a text,
\* or a regular expression, whose test is replaced for the common shapes
parse(pattern) ==
  LET Fast(stars, qmarks) ==
        IF stars = Len(pattern) THEN "star"
        ELSE IF stars >= 1 /\ PlainExt(Drop(pattern, stars)) THEN "starDotExt"
        ELSE IF qmarks >= 1 /\ PlainExt(Drop(pattern, qmarks)) THEN "qmarks"
        ELSE IF /\ stars >= 1 /\ Len(pattern) >= stars + 2 /\ pattern[stars + 1] = "."
                /\ \A k \in (stars + 2)..Len(pattern) : pattern[k] = "*"
        THEN "starDotStar"
        ELSE IF /\ Len(pattern) >= 2 /\ Head(pattern) = "."
                /\ \A k \in 2..Len(pattern) : pattern[k] = "*"
        THEN "dotStar"
        ELSE ""
      With(mm, fast) ==
        [kind |-> mm.kind, src |-> mm.src, glob |-> pattern,
         fast |-> IF mm.kind = "regexp" THEN fast ELSE ""]
  IN  IF pattern = GLOBSTAR
      THEN [kind |-> "globstar", src |-> <<>>, glob |-> pattern, fast |-> ""]
      ELSE IF pattern = <<>>
      THEN [kind |-> "string", src |-> <<>>, glob |-> pattern, fast |-> ""]
      ELSE With(toMMPattern(pattern),
                Fast(LeadingRun(pattern, "*"), LeadingRun(pattern, "?")))

\* the test of matchOne for one portion p of the pattern and one portion f
\* of the path: f === p for a text, p.test(f) for a regular expression
PortionMatches(p, f) ==
  LET hidden == f # <<>> /\ Head(f) = "."
      EndsWithExt(ext) == Len(ext) <= Len(f) /\ Drop(f, Len(f) - Len(ext)) = ext
  IN  IF p.kind = "string" THEN f = p.src
      ELSE IF p.fast = "star" THEN f # <<>> /\ ~hidden
      ELSE IF p.fast = "starDotExt"
      THEN ~hidden /\ EndsWithExt(Drop(p.glob, LeadingRun(p.glob, "*")))
      ELSE IF p.fast = "qmarks"
      THEN Len(f) = Len(p.glob) /\ ~hidden
           /\ EndsWithExt(Drop(p.glob, LeadingRun(p.glob, "?")))
      ELSE IF p.fast = "starDotStar" THEN ~hidden /\ Includes(f, ".")
      ELSE IF p.fast = "dotStar" THEN f # <<".">> /\ f # <<".", ".">> /\ hidden
      ELSE RegExpTest(p.src, f)

\* ------------------------------------- minimatch: the whole path
\* split(/\/+/)
RECURSIVE slashSplit(_)
slashSplit(str) ==
  LET Rest(i, after) ==
        <<Take(str, i - 1)>>
          \o slashSplit(Drop(str, IF after = {} THEN Len(str)
                                  ELSE (CHOOSE a \in after : \A b \in after : a <= b) - 1))
      Go(i) == IF i = 0 THEN <<str>>
               ELSE Rest(i, {j \in i..Len(str) : str[j] # "/"})
  IN  Go(IndexFrom(str, "/", 1))

\* Minimatch.levelOneOptimize: a/**/**/b is a/**/b and a/b/../c is a/c
RECURSIVE levelOneReduce(_, _)
levelOneReduce(set, parts) ==
  LET Kept(part, prev) ==
        IF part = GLOBSTAR /\ set # <<>> /\ prev = GLOBSTAR THEN set
        ELSE IF /\ part = <<".", ".">> /\ prev # <<>>
                /\ prev \notin {<<".", ".">>, <<".">>, GLOBSTAR}
        THEN Take(set, Len(set) - 1)
        ELSE Append(set, part)
  IN  IF parts = <<>> THEN set
      ELSE levelOneReduce(Kept(Head(parts), IF set = <<>> THEN <<>> ELSE set[Len(set)]),
                          Tail(parts))

levelOneOptimize(parts) ==
  LET NonEmpty(set) == IF set = <<>> THEN << <<>> >> ELSE set
  IN  NonEmpty(levelOneReduce(<<>>, parts))

\* a portion that '**' does not step over
Hidden(f) == f # <<>> /\ Head(f) = "."

\* Minimatch.matchOne(file, pattern) without partial; pattern holds the
\* portions as parse() made them
RECURSIVE matchOne(_, _)
matchOne(file, pattern) ==
  IF file = <<>> \/ pattern = <<>>
  THEN IF file = <<>> THEN pattern = <<>>
       ELSE Len(file) = 1 /\ file[1] = <<>>
  ELSE IF Head(pattern).kind = "globstar" /\ Len(pattern) = 1
  THEN \A k \in 1..Len(file) : ~Hidden(file[k])
  ELSE \E fr \in 1..(IF Head(pattern).kind = "globstar" THEN Len(file) ELSE 1) :
         /\ \A k \in 1..(fr - 1) : ~Hidden(file[k])
         /\ Head(pattern).kind = "globstar" \/ PortionMatches(Head(pattern), Head(file))
         /\ matchOne(SubSeq(file, IF Head(pattern).kind = "globstar" THEN fr ELSE 2,
                            Len(file)),
                     Tail(pattern))


\* new Minimatch(pattern) with default options: the sets of parsed portions
\* and the negation; or the constructor throws the SyntaxError of a
\* portion's regular expression; or brace expansion never returns and the
\* process aborts
Minimatch(pattern) ==
  LET Parsed(portions) == [k \in 1..Len(portions) |-> parse(portions[k])]
      Made(set, negate) ==
        [kind |-> IF \E p \in set : \E k \in 1..Len(p) : p[k].kind = "throws"
                  THEN "throws" ELSE "made",
         empty |-> FALSE, negate |-> negate, set |-> set]
      Expanded(globs, negate) ==
        IF globs.loops
        THEN [kind |-> "aborts", empty |-> FALSE, negate |-> negate, set |-> {}]
        ELSE Made({Parsed(levelOneOptimize(slashSplit(g))) : g \in globs.set}, negate)
      Negated(bangs) == Expanded(braceExpand(Drop(pattern, bangs)), bangs % 2 = 1)
  IN  IF pattern = <<>>
      THEN [kind |-> "made", empty |-> TRUE, negate |-> FALSE, set |-> {}]
      ELSE Negated(LeadingRun(pattern, "!"))

\* Minimatch.match(f), when there is a Minimatch
match(mm, f) ==
  IF mm.kind = "throws" THEN [kind |-> "throws", value |-> FALSE, error |-> "Invalid regular expression"]
  ELSE IF mm.kind = "aborts" THEN [kind |-> "aborts", value |-> FALSE, error |-> ""]
  ELSE [kind |-> "returns", error |-> "",
        value |-> IF mm.empty THEN f = <<>>
                  ELSE (\E p \in mm.set : matchOne(slashSplit(f), p)) # mm.negate]

\* minimatch(p, pattern): a pattern that starts with '#' is a comment
minimatch(filename, pattern) ==
  IF pattern # <<>> /\ Head(pattern) = "#"
  THEN [kind |-> "returns", value |-> FALSE, error |-> ""]
  ELSE match(Minimatch(pattern), filename)

\* --------------------------------------------------------- getCodeOwners
\* lines 119-133: which of the three tests decides, and its answer; the
\* call of line 120 may throw or never return
PatternMatches(filename, pattern) ==
  IF Includes(pattern, "*") THEN minimatch(filename, pattern)
  ELSE [kind |-> "returns", error |-> "",
        value |-> IF EndsWith(pattern, "/") THEN StartsWith(filename, pattern)
                  ELSE filename = pattern]

\* lines 115-134: the reviewers array after the loop, unless line 120 ended it
RECURSIVE MatchedOwners(_, _)
MatchedOwners(filename, entries) ==
  LET Pushed(m, more) ==
        IF more.kind # "returns" THEN more
        ELSE [more EXCEPT !.value = (IF m.value THEN Head(entries).owners ELSE <<>>) \o @]
      Go(m) ==
        IF m.kind # "returns" THEN [m EXCEPT !.value = <<>>]
        ELSE Pushed(m, MatchedOwners(filename, Tail(entries)))
  IN  IF entries = <<>> THEN [kind |-> "returns", value |-> <<>>, error |-> ""]
      ELSE Go(PatternMatches(filename, Head(entries).pattern))

\* lines 114-137
getCodeOwners(filename, codeOwners) ==
  LET Go(r) == [r EXCEPT !.value = Dedupe(@)]
  IN  Go(MatchedOwners(filename, codeOwners))

\* ----------------------------------------------------- getBlameReviewers
NoUser == "<no-user>"          \* commit.author.user is null or has no login
NullAuthor == "<null-author>"  \* commit.author itself is null

\* Array.prototype.sort((a, b) => a.age - b.age): stable, ascending age
RECURSIVE InsertByAge(_, _)
InsertByAge(sorted, r) ==
  IF sorted = <<>> THEN <<r>>
  ELSE IF Head(sorted).age <= r.age
       THEN <<Head(sorted)>> \o InsertByAge(Tail(sorted), r)
       ELSE <<r>> \o sorted

RECURSIVE SortByAge(_)
SortByAge(rs) ==
  IF rs = <<>> THEN <<>>
  ELSE InsertByAge(SortByAge(SubSeq(rs, 1, Len(rs) - 1)), rs[Len(rs)])

\* the walk over the sorted ranges, stopping once two authors are collected
RECURSIVE WalkRanges(_, _, _)
WalkRanges(acc, rs, author) ==
  IF rs = <<>> THEN acc
  ELSE IF Head(rs).login # author
       THEN LET acc2 == SetAdd(acc, Head(rs).login)
            IN  IF Len(acc2) >= 2 THEN acc2 ELSE WalkRanges(acc2, Tail(rs), author)
       ELSE WalkRanges(acc, Tail(rs), author)

\* reading range.commit.author.user of a range whose commit.author is null throws
FilterThrows(rs) == \E i \in 1..Len(rs) : rs[i].login = NullAuthor

BlameFromRanges(rs, author) ==
  WalkRanges(<<>>, SortByAge(SelectSeq(rs, LAMBDA r : r.login # NoUser)), author)

\* variant: the ranges read before the failing one are kept
getBlameReviewersKeepsPartial(resp, author) ==
  IF resp.kind = "ranges"
  THEN BlameFromRanges(SelectSeq(resp.ranges, LAMBDA r : r.login # NullAuthor), author)
  ELSE <<>>

\* what getBlameReviewers returns for one graphql response
getBlameReviewers(resp, author) ==
  IF resp.kind = "ranges" /\ ~FilterThrows(resp.ranges)
  THEN BlameFromRanges(resp.ranges, author)
  ELSE <<>>

\* which branch of getBlameReviewers handled the response
BlameOutcome(resp) ==
  IF resp.kind = "error"
  THEN (IF resp.message = "path does not exist" THEN "newFile" ELSE "lookupError")
  ELSE IF resp.kind = "ranges" /\ FilterThrows(resp.ranges) THEN "lookupError"
  ELSE IF resp.kind = "ranges" THEN "ranges"
  ELSE "noRanges"

\* ------------------------------------------------- filterValidReviewers
EligiblePermissions == {"write", "maintain", "admin"}

\* variant: any permission level of a successful lookup is accepted
PermissionAcceptsAnyLevel(resp) == resp.status = 200

\* ['write', 'maintain', 'admin'].includes(data.permission) after a lookup
\* that did not throw
PermissionAccepts(resp) == resp.status = 200 /\ resp.permission \in EligiblePermissions

\* variant: a failed lookup discards the reviewers accepted so far
NextValidResets(valid, reviewer, resp) ==
  IF PermissionAccepts(resp) THEN Append(valid, reviewer)
  ELSE IF resp.status = 500 THEN <<>> ELSE valid

\* lines 264-293: the accumulator after the lookup for one reviewer
NextValid(valid, reviewer, resp) ==
  IF PermissionAccepts(resp) THEN Append(valid, reviewer) ELSE valid

\* lines 273-277: checkMembershipForUser is called only for a 404 in an
\* organization
MembershipChecked(resp, isOrg) == resp.status = 404 /\ isOrg

\* ----------------------------------------------------- filterByTimezone
NoTz == "<no-tz>"
BadTz == "Mars/Olympus"

\* lines 224-240: whether the try block throws for a reviewer with a recorded
\* timezone: toLocaleString throws on an invalid identifier (line 227), and
\* reading workingHours.start throws when the workingHours key is absent
\* (line 231); either way the catch at 237 warns and keeps the reviewer
TimezoneTryThrows(userTz, workingHours) ==
  userTz # NoTz /\ (userTz = BadTz \/ ~workingHours.defined)

\* the decision of filterByTimezone for one reviewer; hour is the reviewer's
\* current local hour (getHours of the converted date)
TimezoneKeeps(userTz, hour, workingHours) ==
  IF userTz = NoTz THEN TRUE
  ELSE IF TimezoneTryThrows(userTz, workingHours) THEN TRUE
  ELSE hour >= workingHours.start /\ hour < workingHours.end

\* lines 212-244; line 216 is outside the try of line 224, so with the
\* userTimezones key absent the lookup for the first reviewer throws out of
\* the function
filterByTimezone(revs, tzConfig, hours) ==
  IF revs # <<>> /\ ~tzConfig.userTimezones.defined
  THEN [kind |-> "throws", value |-> <<>>, error |-> "userTimezones"]
  ELSE [kind |-> "returns", error |-> "",
        value |-> SelectSeq(revs, LAMBDA r :
                    TimezoneKeeps(tzConfig.userTimezones.zone[r], hours[r],
                                  tzConfig.workingHours))]

\* ------------------------------------------------------ inputs of a run
Users == {"alice", "bob", "carol", "dave"}

PRAuthors == {"alice"}

\* changed-file paths
PathApiX == <<"a", "/", "x", ".", "j", "s">>
PathReadme == <<"r", ".", "m", "d">>
Paths == {PathApiX, PathReadme}


ChangedFiles == [filename : Paths, status : {"modified", "added"}]

\* listFiles responses: every path of the diff is listed once
FileLists ==
  {fs \in SeqsUpTo(ChangedFiles, MaxFiles) :
     \A i, j \in 1..Len(fs) : i # j => fs[i].filename # fs[j].filename}

\* a key of the JSON file: defined says whether the file has it
Undefined == [defined |-> FALSE, value |-> <<>>]
Defined(v) == [defined |-> TRUE, value |-> v]

\* codeOwners mappings, as the ordered entries Object.entries yields
CodeOwnersChoices ==
  {Undefined, Defined(<<>>),
   Defined(<< [pattern |-> <<"a", "/">>, owners |-> <<"alice">>] >>),
   Defined(<< [pattern |-> <<"a", "/">>, owners |-> <<"alice", "bob">>],
           [pattern |-> <<"*", ".", "m", "d">>, owners |-> <<"bob", "carol">>],
           [pattern |-> <<"r", ".", "m", "d">>, owners |-> <<"carol", "dave">>],
           [pattern |-> <<"*", "*", "/", "*", ".", "j", "s">>, owners |-> <<"bob">>] >>),
   \* a pattern whose regular expression is refused
   Defined(<< [pattern |-> <<"a", "/">>, owners |-> <<"alice">>],
           [pattern |-> <<"[", "[", ":", "a", "l", "p", "h", "a", ":", "]", "]", "-", "*">>,
           owners |-> <<"bob">>] >>),
   \* a pattern whose brace expansion never ends
   Defined(<< [pattern |-> <<"*", ".", "{", "1", ".", ".", "2", ".", ".", "0", "}">>,
           owners |-> <<"bob">>] >>)}

DefaultReviewersChoices ==
  {Undefined, Defined(<<"bob", "carol">>), Defined(<<"alice", "bob", "carol">>)}

\* the workingHours and userTimezones keys of config.timezone; defined says
\* whether the file has the key
WorkingHours(has) ==
  [defined |-> has, start |-> IF has THEN 9 ELSE 0, end |-> IF has THEN 18 ELSE 0]
UserTimezones(has) ==
  [defined |-> has,
   zone |-> [u \in Users |-> CASE has /\ u = "bob"   -> "Asia/Seoul"
                               [] has /\ u = "carol" -> BadTz
                               [] OTHER              -> NoTz]]
\* config.timezone: disabled, enabled, enabled without workingHours, enabled
\* without userTimezones
TimezoneChoices ==
  {[defined |-> TRUE, enabled |-> FALSE, workingHours |-> WorkingHours(TRUE),
    userTimezones |-> UserTimezones(TRUE)],
   [defined |-> TRUE, enabled |-> TRUE, workingHours |-> WorkingHours(TRUE),
    userTimezones |-> UserTimezones(TRUE)],
   [defined |-> TRUE, enabled |-> TRUE, workingHours |-> WorkingHours(FALSE),
    userTimezones |-> UserTimezones(TRUE)],
   [defined |-> TRUE, enabled |-> TRUE, workingHours |-> WorkingHours(TRUE),
    userTimezones |-> UserTimezones(FALSE)]}

\* the parsed reviewers-config.json; 0 stands for a numeric key that is
\* absent (or zero): both are falsy in the validation at lines 12 and 16.
\* A timezone section that lacks a key is combined with minReviewers and
\* maxReviewers absent and excludeAuthors off.
ConfigFiles ==
  [minReviewers : 0..MinReviewersCfg,
   maxReviewers : (-1)..MaxReviewersCfg,
   codeOwners : CodeOwnersChoices,
   defaultReviewers : DefaultReviewersChoices,
   excludeAuthors : BOOLEAN,
   timezone : {t \in TimezoneChoices :
                 t.workingHours.defined /\ t.userTimezones.defined}]
  \cup
  [minReviewers : {0},
   maxReviewers : {0},
   codeOwners : CodeOwnersChoices,
   defaultReviewers : DefaultReviewersChoices,
   excludeAuthors : {FALSE},
   timezone : {t \in TimezoneChoices :
                 ~(t.workingHours.defined /\ t.userTimezones.defined)}]

DefaultMinReviewers == 2
DefaultMaxReviewers == 3

\* lines 11-19: the validation that fills in the two defaults
Validate(cf) ==
  [cf EXCEPT !.minReviewers = IF cf.minReviewers = 0 THEN DefaultMinReviewers ELSE @,
             !.maxReviewers = IF cf.maxReviewers = 0 THEN DefaultMaxReviewers ELSE @]

NoConfig == [minReviewers |-> 0, maxReviewers |-> 0, codeOwners |-> Undefined,
             defaultReviewers |-> Undefined, excludeAuthors |-> FALSE,
             timezone |-> [defined |-> FALSE, enabled |-> FALSE,
                           workingHours |-> WorkingHours(FALSE),
                           userTimezones |-> UserTimezones(FALSE)]]

\* hour recorded for a reviewer whose local time was not computed
NoHour == -1
NoHours == [u \in Users |-> NoHour]

\* graphql blame responses
BlameLogins == {"alice", "bob", "carol", NoUser, NullAuthor}
\* the age field of a range is 0 or 1: the newest and an older commit
BlameResponses ==
  {[kind |-> "error", message |-> m, ranges |-> <<>>] :
       m \in {"path does not exist", "rate limited"}}
  \cup {[kind |-> "empty", message |-> "", ranges |-> <<>>]}
  \cup {[kind |-> "ranges", message |-> "", ranges |-> rs] :
       rs \in SeqsUpTo([login : BlameLogins, age : {0, 1}], MaxRanges)}

\* getCollaboratorPermissionLevel responses
PermissionLevels == {"admin", "maintain", "write", "triage", "read", "none"}
PermissionResponses ==
  {[status |-> 200, permission |-> p] : p \in PermissionLevels}
  \cup {[status |-> 404, permission |-> "n/a"], [status |-> 500, permission |-> "n/a"]}

\* lastPerm.member is "pending" while the membership call is unanswered and
\* "n/a" when none is made
NoPerm == [user |-> "", status |-> 0, permission |-> "n/a", member |-> "n/a",
           memberChecked |-> FALSE]
NoBlame == [file |-> 0, outcome |-> "none", result |-> <<>>]

\* ------------------------------------------------------------- the state
VARIABLES
  pc,              \* position in module.exports
  prAuthor,        \* context.payload.pull_request.user.login
  isOrganization,  \* context.payload.repository.owner.type === 'Organization'
  configFile,      \* reviewers-config.json as parsed
  config,          \* config after validation
  listCalls,       \* number of listFiles calls issued
  files,           \* listFiles response
  reviewers,       \* the reviewers Set / array, in insertion order
  fileIdx,         \* blame loop position
  blameCalls,      \* indices of the files a blame lookup was issued for
  lastBlame,       \* the blame loop's locals: outcome of the latest lookup
  afterOwners,     \* reviewers when the ownership stage ended
  afterBlame,      \* reviewers when the blame stage ended
  afterDefaults,   \* reviewers when the defaults stage ended
  afterExclude,    \* reviewers after the author exclusion
  tzHours,         \* local hours seen by filterByTimezone
  candidates,      \* Array.from(reviewers) passed to filterValidReviewers
  permIdx,         \* permission loop position
  validReviewers,  \* accumulator of filterValidReviewers
  permCalls,       \* usernames a permission lookup was issued for
  memberCalls,     \* usernames a membership check was issued for
  lastPerm,        \* the permission loop's locals: outcome of the latest lookup
  granted,         \* users whose lookup succeeded with an eligible permission
  finalReviewers,  \* reviewers.slice(0, maxReviewers)
  requestCalls,    \* requestReviewers calls: [reviewers, ok]
  commentCalls,    \* createComment calls: [reviewers, ok]
  warnings,        \* core.warning messages
  errors,          \* core.error messages
  failed,          \* core.setFailed messages
  ownFile,         \* getCodeOwners on its own: the filename argument
  ownMap,          \* getCodeOwners on its own: the codeOwners argument
  ownResult,       \* getCodeOwners on its own: the returned array
  ownDone,         \* getCodeOwners on its own: the call has returned
  ownOutcome,      \* getCodeOwners on its own: how the call ended, "" before
  blRanges,        \* getBlameReviewers on its own: the ranges of the response
  blAuthor,        \* getBlameReviewers on its own: the prAuthor argument
  blResult,        \* getBlameReviewers on its own: the returned array
  blDone           \* getBlameReviewers on its own: the call has returned

vars == <<pc, prAuthor, isOrganization, configFile, config, listCalls, files, reviewers,
          fileIdx, blameCalls, lastBlame, afterOwners, afterBlame,
          afterDefaults, afterExclude, tzHours, candidates, permIdx,
          validReviewers, permCalls, memberCalls, lastPerm, granted,
          finalReviewers, requestCalls, commentCalls, warnings, errors, failed,
          ownFile, ownMap, ownResult, ownDone, ownOutcome,
          blRanges, blAuthor, blResult, blDone>>

eventVars == <<prAuthor, isOrganization>>
\* what every step but the listFiles call leaves alone
ownVars == <<ownFile, ownMap, ownResult, ownDone, ownOutcome>>
blVars == <<blRanges, blAuthor, blResult, blDone>>
ctxVars == <<eventVars, listCalls, ownVars, blVars>>
cfgVars == <<configFile, config>>
blameVars == <<fileIdx, blameCalls, lastBlame>>
snapVars == <<afterOwners, afterBlame, afterDefaults, afterExclude, tzHours>>
permVars == <<candidates, permIdx, validReviewers, permCalls, memberCalls,
              lastPerm, granted>>
outVars == <<finalReviewers, requestCalls, commentCalls>>
logVars == <<warnings, errors, failed>>

PipelineInit ==
  /\ pc = "start"
  /\ prAuthor \in PRAuthors
  /\ isOrganization \in BOOLEAN
  /\ configFile = NoConfig
  /\ config = NoConfig
  /\ listCalls = 0
  /\ files = <<>>
  /\ reviewers = <<>>
  /\ fileIdx = 0
  /\ blameCalls = <<>>
  /\ lastBlame = NoBlame
  /\ afterOwners = <<>>
  /\ afterBlame = <<>>
  /\ afterDefaults = <<>>
  /\ afterExclude = <<>>
  /\ tzHours = NoHours
  /\ candidates = <<>>
  /\ permIdx = 0
  /\ validReviewers = <<>>
  /\ permCalls = <<>>
  /\ memberCalls = <<>>
  /\ lastPerm = NoPerm
  /\ granted = {}
  /\ finalReviewers = <<>>
  /\ requestCalls = <<>>
  /\ commentCalls = <<>>
  /\ warnings = {}
  /\ errors = {}
  /\ failed = {}

\* getCodeOwners is not being exercised on its own
OwnersIdle ==
  /\ ownFile = <<>>
  /\ ownMap = <<>>
  /\ ownResult = <<>>
  /\ ownDone = FALSE
  /\ ownOutcome = ""

\* getBlameReviewers is not being exercised on its own
BlameIdle ==
  /\ blRanges = <<>>
  /\ blAuthor = ""
  /\ blResult = <<>>
  /\ blDone = FALSE

Init == PipelineInit /\ OwnersIdle /\ BlameIdle

\* variant: the catch logs the error but does not fail the run
CaughtWithoutSetFailed(msg) ==
  /\ pc' = "done"
  /\ errors' = errors \cup {msg}
  /\ failed' = failed

\* variant: the catch fails the run but does not log the error
CaughtWithoutLog(msg) ==
  /\ pc' = "done"
  /\ errors' = errors
  /\ failed' = failed \cup {msg}

\* lines 107-110: the top-level catch
Caught(msg) ==
  /\ pc' = "done"
  /\ errors' = errors \cup {msg}
  /\ failed' = failed \cup {msg}

\* lines 8-19: read and validate the configuration file
LoadConfig ==
  /\ pc = "start"
  /\ \E cf \in ConfigFiles :
       /\ configFile' = cf
       /\ config' = Validate(cf)
       /\ warnings' = warnings
            \cup (IF cf.minReviewers = 0 THEN {"minReviewers not defined"} ELSE {})
            \cup (IF cf.maxReviewers = 0 THEN {"maxReviewers not defined"} ELSE {})
  /\ pc' = "listFiles"
  /\ UNCHANGED <<ctxVars, files, reviewers, blameVars, snapVars, permVars,
                 outVars, errors, failed>>

\* variant: an unreadable file is reported, then the run goes on with the
\* built-in defaults
LoadConfigFailsContinues ==
  /\ pc = "start"
  /\ config' = Validate(NoConfig)
  /\ configFile' = configFile
  /\ errors' = errors \cup {"config"}
  /\ failed' = failed \cup {"config"}
  /\ pc' = "listFiles"
  /\ UNCHANGED <<ctxVars, files, reviewers, blameVars, snapVars, permVars,
                 outVars, warnings>>

\* line 9 throws: the file is unreadable or not JSON
LoadConfigFails ==
  /\ pc = "start"
  /\ Caught("config")
  /\ UNCHANGED <<ctxVars, cfgVars, files, reviewers, blameVars, snapVars,
                 permVars, outVars, warnings>>

\* lines 30-34
ListFiles ==
  /\ pc = "listFiles"
  /\ \E fs \in FileLists : files' = fs
  /\ listCalls' = listCalls + 1
  /\ pc' = "owners"
  /\ UNCHANGED <<eventVars, ownVars, blVars, cfgVars, reviewers, blameVars, snapVars, permVars,
                 outVars, logVars>>

\* variant: a failed listFiles call is issued again
ListFilesFailsRetries ==
  /\ pc = "listFiles"
  /\ listCalls < 2
  /\ listCalls' = listCalls + 1
  /\ UNCHANGED <<pc, eventVars, ownVars, blVars, cfgVars, files, reviewers,
                 blameVars, snapVars, permVars, outVars, logVars>>

ListFilesFails ==
  /\ pc = "listFiles"
  /\ listCalls' = listCalls + 1
  /\ Caught("listFiles")
  /\ UNCHANGED <<eventVars, ownVars, blVars, cfgVars, files, reviewers, blameVars, snapVars,
                 permVars, outVars, warnings>>

\* lines 39-42: the ownership loop over all changed files, unless a call of
\* getCodeOwners ends it
RECURSIVE OwnersOfFiles(_, _, _)
OwnersOfFiles(acc, fs, codeOwners) ==
  LET Go(r) ==
        IF r.kind # "returns" THEN r
        ELSE OwnersOfFiles(AddAll(acc, r.value), Tail(fs), codeOwners)
  IN  IF fs = <<>> THEN [kind |-> "returns", value |-> acc, error |-> ""]
      ELSE Go(getCodeOwners(Head(fs).filename, codeOwners))

\* lines 39-42 for the codeOwners key of the file: Object.entries(undefined)
\* throws on the first file
OwnersStage(fs, codeOwners) ==
  IF fs # <<>> /\ ~codeOwners.defined
  THEN [kind |-> "throws", value |-> <<>>, error |-> "codeOwners"]
  ELSE OwnersOfFiles(<<>>, fs, codeOwners.value)

\* lines 36-47: ownership stage, then the test that opens the blame stage
CollectOwners ==
  /\ pc = "owners"
  /\ \E r \in {OwnersStage(files, config.codeOwners)} :
         /\ r.kind = "returns"
         /\ reviewers' = r.value
         /\ afterOwners' = r.value
         /\ IF Len(r.value) < config.minReviewers
            THEN pc' = "blame" /\ fileIdx' = 1 /\ afterBlame' = afterBlame
            ELSE pc' = "defaults" /\ fileIdx' = fileIdx /\ afterBlame' = r.value
  /\ UNCHANGED <<ctxVars, cfgVars, files, blameCalls, lastBlame, afterDefaults,
                 afterExclude, tzHours, permVars, outVars, logVars>>

\* lines 39-42 throw: the TypeError of Object.entries, or the SyntaxError
\* of the regular expression minimatch builds at line 120
CollectOwnersFails ==
  /\ pc = "owners"
  /\ \E r \in {OwnersStage(files, config.codeOwners)} :
         /\ r.kind = "throws"
         /\ Caught(r.error)
  /\ UNCHANGED <<ctxVars, cfgVars, files, reviewers, blameVars, snapVars,
                 permVars, outVars, warnings>>

\* line 120 never returns: the brace expansion of minimatch loops until the
\* process runs out of memory and is aborted; nothing is logged
CollectOwnersAborts ==
  /\ pc = "owners"
  /\ OwnersStage(files, config.codeOwners).kind = "aborts"
  /\ pc' = "aborted"
  /\ UNCHANGED <<ctxVars, cfgVars, files, reviewers, blameVars, snapVars,
                 permVars, outVars, logVars>>

\* variant: the lookup is not limited by maxReviewers
BlameEligibleAnySize(file, revs, cfg) == file.status = "modified"

\* line 49: the test that guards one blame lookup
BlameEligible(file, revs, cfg) ==
  file.status = "modified" /\ Len(revs) < cfg.maxReviewers

\* lines 48-54, one iteration that issues the lookup (lines 140-209)
BlameLookup ==
  /\ pc = "blame"
  /\ fileIdx <= Len(files)
  /\ BlameEligible(files[fileIdx], reviewers, config)
  /\ \E resp \in BlameResponses :
       LET result == getBlameReviewers(resp, prAuthor)
       IN  /\ reviewers' = AddAll(reviewers, result)
           /\ lastBlame' = [file |-> fileIdx, outcome |-> BlameOutcome(resp),
                            result |-> result]
           /\ warnings' = IF BlameOutcome(resp) = "lookupError"
                          THEN warnings \cup {"Could not get blame"}
                          ELSE warnings
  /\ blameCalls' = Append(blameCalls, fileIdx)
  /\ fileIdx' = fileIdx + 1
  /\ UNCHANGED <<pc, ctxVars, cfgVars, files, snapVars, permVars, outVars,
                 errors, failed>>

\* lines 48-49, one iteration whose test fails
BlameSkip ==
  /\ pc = "blame"
  /\ fileIdx <= Len(files)
  /\ ~BlameEligible(files[fileIdx], reviewers, config)
  /\ fileIdx' = fileIdx + 1
  /\ UNCHANGED <<pc, ctxVars, cfgVars, files, reviewers, blameCalls, lastBlame,
                 snapVars, permVars, outVars, logVars>>

\* lines 55-57: the loop is over
BlameDone ==
  /\ pc = "blame"
  /\ fileIdx > Len(files)
  /\ afterBlame' = reviewers
  /\ lastBlame' = NoBlame
  /\ pc' = "defaults"
  /\ UNCHANGED <<ctxVars, cfgVars, files, reviewers, fileIdx, blameCalls,
                 afterOwners, afterDefaults, afterExclude, tzHours, permVars,
                 outVars, logVars>>

\* lines 60-65 on the reviewers set
WithDefaults(revs, cfg) ==
  IF Len(revs) < cfg.minReviewers /\ cfg.defaultReviewers.defined
  THEN AddAll(revs, Slice(cfg.defaultReviewers.value, cfg.minReviewers - Len(revs)))
  ELSE revs

AddDefaults ==
  /\ pc = "defaults"
  /\ reviewers' = WithDefaults(reviewers, config)
  /\ afterDefaults' = reviewers'
  /\ pc' = "exclude"
  /\ UNCHANGED <<ctxVars, cfgVars, files, blameVars, afterOwners, afterBlame,
                 afterExclude, tzHours, permVars, outVars, logVars>>

\* variant: the flag is read inverted
WithoutAuthorInverted(revs, cfg, author) ==
  IF ~cfg.excludeAuthors THEN SetDelete(revs, author) ELSE revs

\* lines 68-70 on the reviewers set
WithoutAuthor(revs, cfg, author) ==
  IF cfg.excludeAuthors THEN SetDelete(revs, author) ELSE revs

ExcludeAuthor ==
  /\ pc = "exclude"
  /\ reviewers' = WithoutAuthor(reviewers, config, prAuthor)
  /\ afterExclude' = reviewers'
  /\ pc' = "timezone"
  /\ UNCHANGED <<ctxVars, cfgVars, files, blameVars, afterOwners, afterBlame,
                 afterDefaults, tzHours, permVars, outVars, logVars>>

\* lines 73-80: the timezone filter (when enabled), then Array.from(reviewers);
\* tzHours records the local hour of every reviewer for whom the comparison
\* of lines 231-232 is made: a valid recorded timezone and workingHours present
TimezoneFilter ==
  /\ pc = "timezone"
  /\ IF config.timezone.defined /\ config.timezone.enabled
     THEN \E h \in [{u \in Range(reviewers) :
                       /\ config.timezone.userTimezones.zone[u] # NoTz
                       /\ ~TimezoneTryThrows(config.timezone.userTimezones.zone[u],
                                             config.timezone.workingHours)}
                    -> {2, 9, 17, 18}] :
          \E hours \in {[u \in Users |-> IF u \in DOMAIN h THEN h[u] ELSE NoHour]} :
          \E r \in {filterByTimezone(reviewers, config.timezone, hours)} :
            /\ r.kind = "returns"
            /\ tzHours' = hours
            /\ reviewers' = r.value
            /\ warnings' = IF \E u \in Range(reviewers) :
                                 TimezoneTryThrows(config.timezone.userTimezones.zone[u],
                                                   config.timezone.workingHours)
                           THEN warnings \cup {"Invalid timezone"}
                           ELSE warnings
     ELSE UNCHANGED <<tzHours, reviewers, warnings>>
  /\ candidates' = reviewers'
  /\ permIdx' = 1
  /\ pc' = "permission"
  /\ UNCHANGED <<ctxVars, cfgVars, files, blameVars, afterOwners, afterBlame,
                 afterDefaults, afterExclude, validReviewers, permCalls,
                 memberCalls, lastPerm, granted, outVars, errors, failed>>

\* line 74 rejects: filterByTimezone threw at line 216, before any local hour
\* was computed, and the run ends in the top-level catch
TimezoneFilterFails ==
  /\ pc = "timezone"
  /\ config.timezone.defined /\ config.timezone.enabled
  /\ \E r \in {filterByTimezone(reviewers, config.timezone, NoHours)} :
         /\ r.kind = "throws"
         /\ Caught(r.error)
  /\ UNCHANGED <<ctxVars, cfgVars, files, reviewers, blameVars, snapVars,
                 permVars, outVars, warnings>>

\* lines 254-275 and 287-294: one iteration of the permission loop up to the
\* answer of getCollaboratorPermissionLevel; on a 404 in an organization it
\* issues checkMembershipForUser (line 277) and waits for that answer
CheckPermission ==
  /\ pc = "permission"
  /\ permIdx <= Len(candidates)
  /\ LET reviewer == candidates[permIdx]
     IN  \E resp \in PermissionResponses :
           /\ validReviewers' = NextValid(validReviewers, reviewer, resp)
           /\ permCalls' = Append(permCalls, reviewer)
           /\ lastPerm' = [user |-> reviewer, status |-> resp.status,
                           permission |-> resp.permission,
                           member |-> IF MembershipChecked(resp, isOrganization)
                                      THEN "pending" ELSE "n/a",
                           memberChecked |-> MembershipChecked(resp, isOrganization)]
           /\ granted' = IF resp.status = 200 /\ resp.permission \in {"write", "maintain", "admin"}
                         THEN granted \cup {reviewer}
                         ELSE granted
           /\ warnings' = IF resp.status \notin {200, 404}
                          THEN warnings \cup {"Error checking reviewer"}
                          ELSE warnings
           /\ IF MembershipChecked(resp, isOrganization)
              THEN /\ memberCalls' = Append(memberCalls, reviewer)
                   /\ pc' = "membership"
                   /\ permIdx' = permIdx
              ELSE /\ memberCalls' = memberCalls
                   /\ pc' = "permission"
                   /\ permIdx' = permIdx + 1
  /\ UNCHANGED <<ctxVars, cfgVars, files, reviewers, blameVars, snapVars,
                 candidates, outVars, errors, failed>>

\* lines 277-286: checkMembershipForUser answers; either way the candidate
\* is not accepted and the loop goes on to the next one
MembershipAnswered ==
  /\ pc = "membership"
  /\ \E m \in {"member", "notMember"} : lastPerm' = [lastPerm EXCEPT !.member = m]
  /\ permIdx' = permIdx + 1
  /\ pc' = "permission"
  /\ UNCHANGED <<ctxVars, cfgVars, files, reviewers, blameVars, snapVars,
                 candidates, validReviewers, permCalls, memberCalls, granted,
                 outVars, logVars>>

\* variant: an empty final list fails the run instead of warning
TruncateFailsWhenEmpty ==
  /\ pc = "permission"
  /\ permIdx > Len(candidates)
  /\ reviewers' = validReviewers
  /\ finalReviewers' = Slice(validReviewers, config.maxReviewers)
  /\ IF Len(finalReviewers') > 0
     THEN pc' = "request" /\ failed' = failed
     ELSE pc' = "done" /\ failed' = failed \cup {"No suitable reviewers found"}
  /\ lastPerm' = NoPerm
  /\ UNCHANGED <<ctxVars, cfgVars, files, blameVars, snapVars, candidates,
                 permIdx, validReviewers, permCalls, memberCalls, granted,
                 requestCalls, commentCalls, errors, warnings>>

\* lines 83-86 and 103-105: truncate, then warn when nobody is left
Truncate ==
  /\ pc = "permission"
  /\ permIdx > Len(candidates)
  /\ reviewers' = validReviewers
  /\ finalReviewers' = Slice(validReviewers, config.maxReviewers)
  /\ IF Len(finalReviewers') > 0
     THEN pc' = "request" /\ warnings' = warnings
     ELSE pc' = "done" /\ warnings' = warnings \cup {"No suitable reviewers found"}
  /\ lastPerm' = NoPerm
  /\ UNCHANGED <<ctxVars, cfgVars, files, blameVars, snapVars, candidates,
                 permIdx, validReviewers, permCalls, memberCalls, granted,
                 requestCalls, commentCalls, errors, failed>>

\* lines 87-92
RequestReviewers ==
  /\ pc = "request"
  /\ requestCalls' = Append(requestCalls, [reviewers |-> finalReviewers, ok |-> TRUE])
  /\ pc' = "comment"
  /\ UNCHANGED <<ctxVars, cfgVars, files, reviewers, blameVars, snapVars,
                 permVars, finalReviewers, commentCalls, logVars>>

\* variant: a failed requestReviewers call is only warned about
RequestReviewersFailsQuietly ==
  /\ pc = "request"
  /\ requestCalls' = Append(requestCalls, [reviewers |-> finalReviewers, ok |-> FALSE])
  /\ warnings' = warnings \cup {"requestReviewers"}
  /\ pc' = "comment"
  /\ UNCHANGED <<ctxVars, cfgVars, files, reviewers, blameVars, snapVars,
                 permVars, finalReviewers, commentCalls, errors, failed>>

RequestReviewersFails ==
  /\ pc = "request"
  /\ requestCalls' = Append(requestCalls, [reviewers |-> finalReviewers, ok |-> FALSE])
  /\ Caught("requestReviewers")
  /\ UNCHANGED <<ctxVars, cfgVars, files, reviewers, blameVars, snapVars,
                 permVars, finalReviewers, commentCalls, warnings>>

\* lines 97-102
CreateComment ==
  /\ pc = "comment"
  /\ commentCalls' = Append(commentCalls, [reviewers |-> finalReviewers, ok |-> TRUE])
  /\ pc' = "done"
  /\ UNCHANGED <<ctxVars, cfgVars, files, reviewers, blameVars, snapVars,
                 permVars, finalReviewers, requestCalls, logVars>>

CreateCommentFails ==
  /\ pc = "comment"
  /\ commentCalls' = Append(commentCalls, [reviewers |-> finalReviewers, ok |-> FALSE])
  /\ Caught("createComment")
  /\ UNCHANGED <<ctxVars, cfgVars, files, reviewers, blameVars, snapVars,
                 permVars, finalReviewers, requestCalls, warnings>>

Next ==
  \/ LoadConfig
  \/ LoadConfigFails
  \/ ListFiles
  \/ ListFilesFails
  \/ CollectOwners
  \/ CollectOwnersFails
  \/ CollectOwnersAborts
  \/ BlameLookup
  \/ BlameSkip
  \/ BlameDone
  \/ AddDefaults
  \/ ExcludeAuthor
  \/ TimezoneFilter
  \/ TimezoneFilterFails
  \/ CheckPermission
  \/ MembershipAnswered
  \/ Truncate
  \/ RequestReviewers
  \/ RequestReviewersFails
  \/ CreateComment
  \/ CreateCommentFails

Spec == Init /\ [][Next]_vars

\* the run terminates: every step is a bounded loop iteration or a platform
\* call that returns or throws

TypeOK ==
  /\ pc \in {"start", "listFiles", "owners", "blame", "defaults", "exclude",
             "timezone", "permission", "membership", "request", "comment",
             "done", "aborted"}
  /\ prAuthor \in PRAuthors
  /\ isOrganization \in BOOLEAN
  /\ Range(reviewers) \subseteq Users
  /\ Cardinality(Range(reviewers)) = Len(reviewers)
  /\ Range(finalReviewers) \subseteq Users
  /\ Len(requestCalls) <= 1
  /\ Len(commentCalls) <= 1

\* ------------------------------------------------------------ properties
\* the run has passed the author exclusion of lines 68-70
AfterExclusion == pc \in {"timezone", "permission", "membership", "request", "comment"}
                  \/ (pc = "done" /\ (permIdx >= 1 \/ "userTimezones" \in failed))

\* the run has passed all filters and the truncation of line 83
FiltersDone == pc \in {"request", "comment"} \/ (pc = "done" /\ permIdx >= 1)

NoReviewersWarning == "No suitable reviewers found"

Requested == \E i \in 1..Len(requestCalls) : requestCalls[i].ok
Commented == \E i \in 1..Len(commentCalls) : commentCalls[i].ok

\* C1: every list passed to requestReviewers has at most maxReviewers
\* entries, maxReviewers being the configured value, or 3 when absent.
C1_RequestAtMostMax ==
  \A i \in 1..Len(requestCalls) :
    Len(requestCalls[i].reviewers)
      <= (IF configFile.maxReviewers = 0 THEN 3 ELSE configFile.maxReviewers)

\* C2: with excludeAuthors set, from the exclusion step onward neither the
\* reviewer set, nor the candidates of the permission filter, nor the
\* accepted reviewers, nor any requested list contains the PR author.
C2_AuthorExcluded ==
  (config.excludeAuthors /\ AfterExclusion) =>
    /\ prAuthor \notin Range(reviewers)
    /\ prAuthor \notin Range(candidates)
    /\ prAuthor \notin Range(validReviewers)
    /\ prAuthor \notin Range(finalReviewers)
    /\ \A i \in 1..Len(requestCalls) : prAuthor \notin Range(requestCalls[i].reviewers)

\* C2 witness: the author was in the set when the defaults stage ended, and
\* reviewers were requested.
C2_Witness ==
  /\ config.excludeAuthors
  /\ prAuthor \in Range(afterDefaults)
  /\ Requested

\* C3: the candidate just looked up is among the accepted reviewers exactly
\* when its lookup succeeded with write, maintain or admin (so not for read,
\* triage, an error, or a 404 whatever the membership check says); the
\* accepted reviewers are exactly the users with such a lookup, and every
\* requested reviewer is one of them.
C3_KeptIffEligible ==
  /\ (pc \in {"permission", "membership"} /\ lastPerm # NoPerm) =>
       (lastPerm.user \in Range(validReviewers)
          <=> (lastPerm.status = 200
               /\ lastPerm.permission \in {"write", "maintain", "admin"}))
  /\ Range(validReviewers) = granted
  /\ \A i \in 1..Len(requestCalls) : Range(requestCalls[i].reviewers) \subseteq granted

\* C3 witness: the candidate just looked up is an organization member but
\* not a collaborator (404, membership check succeeded), after another
\* candidate was accepted.
C3_Witness ==
  /\ pc = "permission"
  /\ lastPerm.status = 404
  /\ lastPerm.memberChecked
  /\ lastPerm.member = "member"
  /\ validReviewers # <<>>
  /\ lastPerm.user \notin Range(validReviewers)

\* C4: when the defaults stage ends, having started below minReviewers with
\* defaultReviewers configured, either minReviewers is met or every
\* configured default reviewer is in the set.
C4_DefaultsUntilMin ==
  (pc = "exclude" /\ Len(afterBlame) < config.minReviewers
     /\ config.defaultReviewers.defined) =>
    \/ Len(afterDefaults) >= config.minReviewers
    \/ Range(config.defaultReviewers.value) \subseteq Range(afterDefaults)

\* C5: with excludeAuthors set, the author the only reviewer found by
\* ownership and nothing added by blame, the candidates after the exclusion
\* hold min(minReviewers, number of defaults) default reviewers and not the
\* author.
C5_DefaultsAfterExclusion ==
  (pc = "timezone" /\ config.excludeAuthors /\ config.defaultReviewers.defined
     /\ afterOwners = <<prAuthor>> /\ afterBlame = afterOwners) =>
    /\ prAuthor \notin Range(afterExclude)
    /\ Cardinality(Range(afterExclude) \cap Range(config.defaultReviewers.value))
         = Min2(config.minReviewers, Len(config.defaultReviewers.value))

\* C6 as stated: a finished run either requested reviewers and posted the
\* comment, or requested nothing and warned that nobody is suitable.
C6_TwoOutcomes ==
  pc = "done" =>
    \/ (Requested /\ Commented)
    \/ (requestCalls = <<>> /\ commentCalls = <<>> /\ NoReviewersWarning \in warnings)

OutcomeAssigned ==
  /\ Requested /\ Commented
  /\ commentCalls[1].reviewers = requestCalls[1].reviewers
  /\ failed = {} /\ NoReviewersWarning \notin warnings

OutcomeNoReviewers ==
  /\ requestCalls = <<>> /\ commentCalls = <<>>
  /\ FiltersDone /\ finalReviewers = <<>>
  /\ NoReviewersWarning \in warnings
  /\ failed = {}

\* the errors that reach the top-level catch: from reading the configuration,
\* listFiles, the ownership stage (codeOwners absent, a pattern refused as a
\* regular expression), the timezone filter, requestReviewers, createComment
EscapedErrors ==
  {"config", "listFiles", "codeOwners", "Invalid regular expression",
   "userTimezones", "requestReviewers", "createComment"}

OutcomeFailed ==
  /\ \E e \in EscapedErrors : failed = {e}
  /\ errors = failed
  /\ ~Commented
  /\ NoReviewersWarning \notin warnings
  /\ (requestCalls # <<>> => (~Requested <=> commentCalls = <<>>))

\* C6 amended: a finished run is in exactly one of three outcomes: reviewers
\* requested and comment posted; nothing requested and the warning emitted
\* for an empty final list; or a failed run (setFailed after an error in
\* loading the config, listing the files, the ownership stage, the timezone
\* filter, requestReviewers or createComment), in which no comment was posted.
C6_ThreeOutcomes ==
  pc = "done" =>
    /\ (OutcomeAssigned \/ OutcomeNoReviewers \/ OutcomeFailed)
    /\ ~(OutcomeAssigned /\ OutcomeNoReviewers)
    /\ ~(OutcomeAssigned /\ OutcomeFailed)
    /\ ~(OutcomeNoReviewers /\ OutcomeFailed)

\* C6 witness: reviewers were requested, posting the comment failed.
C6_Witness ==
  /\ pc = "done"
  /\ Requested
  /\ commentCalls # <<>> /\ ~Commented
  /\ OutcomeFailed

BlameFailures == {"newFile", "lookupError"}

\* C7: a blame lookup that fails (no history for the file, or any other
\* failure) adds nobody, returns the empty list, leaves the run in the blame
\* loop at the next file, and neither logs an error nor fails the run.
C7_BlameFailureIsEmpty ==
  [][(blameCalls' # blameCalls /\ lastBlame'.outcome \in BlameFailures) =>
       /\ lastBlame'.result = <<>>
       /\ reviewers' = reviewers
       /\ pc' = "blame"
       /\ fileIdx' = fileIdx + 1
       /\ failed' = failed
       /\ errors' = errors]_vars

\* C7 witness: the lookup for the first file failed, the lookup for the
\* second file was still issued and found somebody, and the run has not failed.
C7_Witness ==
  /\ "Could not get blame" \in warnings
  /\ blameCalls = <<1, 2>>
  /\ lastBlame.file = 2 /\ lastBlame.outcome = "ranges" /\ lastBlame.result # <<>>
  /\ afterOwners = <<>>
  /\ failed = {}

\* C8: a permission lookup (or membership check) that fails drops only the
\* candidate it was for: the accepted reviewers are unchanged, the loop goes
\* on to the next candidate without failing the run, and the filter ends
\* only when every candidate has been looked up, once each and in order.
C8_PermissionFailureDropsOne ==
  [][/\ (permCalls' # permCalls /\ lastPerm'.status # 200) =>
          /\ validReviewers' = validReviewers
          /\ lastPerm'.user \notin Range(validReviewers')
          /\ \/ pc' = "permission" /\ permIdx' = permIdx + 1
             \/ pc' = "membership" /\ permIdx' = permIdx
          /\ failed' = failed
          /\ errors' = errors
     /\ pc = "membership" =>
          /\ validReviewers' = validReviewers
          /\ lastPerm'.user \notin Range(validReviewers')
          /\ pc' = "permission"
          /\ permIdx' = permIdx + 1
          /\ failed' = failed
          /\ errors' = errors
     /\ (pc \in {"permission", "membership"} /\ pc' \notin {"permission", "membership"}) =>
          /\ pc = "permission"
          /\ permCalls = candidates
          /\ reviewers' = validReviewers]_vars

\* C8 witness: the lookup of the second candidate failed with a server
\* error after the first was accepted, and the third was accepted afterwards.
C8_Witness ==
  /\ pc = "permission"
  /\ Len(candidates) >= 3
  /\ "Error checking reviewer" \in warnings
  /\ validReviewers = <<candidates[1], candidates[3]>>
  /\ failed = {}

\* C9: an error escaping a stage ends the run in the catch: it is logged
\* with core.error and reported with setFailed, the run is over, and once the
\* run has failed no requestReviewers or createComment call is made.
C9_EscapedErrorFailsRun ==
  [][/\ failed' # {} => (pc' = "done" /\ errors' = failed')
     /\ failed # {} => UNCHANGED <<requestCalls, commentCalls>>
     /\ (\E i \in 1..Len(requestCalls') : ~requestCalls'[i].ok)
          => ("requestReviewers" \in failed' /\ commentCalls' = <<>>)
     /\ (\E i \in 1..Len(commentCalls') : ~commentCalls'[i].ok)
          => "createComment" \in failed'
     /\ (pc' = "done" /\ pc = "listFiles") => "listFiles" \in failed'
     /\ (pc' = "done" /\ pc = "start") => "config" \in failed']_vars

\* C9 witness: requestReviewers threw; the run has failed and no comment
\* was posted.
C9_Witness ==
  /\ pc = "done"
  /\ failed = {"requestReviewers"}
  /\ errors = {"requestReviewers"}
  /\ Len(requestCalls) = 1
  /\ commentCalls = <<>>

\* C10: when the final list is empty after all filters, the run has warned,
\* has made no requestReviewers and no createComment call, and has not failed.
C10_EmptyFinalWarns ==
  (FiltersDone /\ finalReviewers = <<>>) =>
    /\ pc = "done"
    /\ NoReviewersWarning \in warnings
    /\ requestCalls = <<>>
    /\ commentCalls = <<>>
    /\ failed = {}
    /\ errors = {}

\* C10 witness: there were candidates, the permission filter dropped all.
C10_Witness ==
  /\ pc = "done"
  /\ Len(candidates) >= 2
  /\ permCalls = candidates
  /\ validReviewers = <<>>
  /\ finalReviewers = <<>>
  /\ NoReviewersWarning \in warnings

\* C11: when reading or parsing the configuration file fails, the run is
\* over as failed with that error, and no listFiles, blame, permission,
\* membership, requestReviewers or createComment call was made.
C11_ConfigFailureNoCalls ==
  "config" \in failed =>
    /\ pc = "done"
    /\ failed = {"config"} /\ errors = {"config"}
    /\ listCalls = 0
    /\ blameCalls = <<>>
    /\ permCalls = <<>>
    /\ memberCalls = <<>>
    /\ requestCalls = <<>>
    /\ commentCalls = <<>>

\* C11 witness: the run ended in the catch straight from the config read.
C11_Witness ==
  /\ pc = "done"
  /\ "config" \in failed
  /\ configFile = NoConfig
  /\ listCalls = 0

\* the timezone step of lines 73-75 is behind
AfterTimezone == permIdx >= 1

\* the timezone step was taken: it is behind, or it ended the run
TimezoneStepTaken == AfterTimezone \/ "userTimezones" \in failed

\* cases (a), (b), (c) for a reviewer: no timezone recorded, an invalid
\* timezone identifier, or a local hour h with start <= h < end
ClaimedKept(u) ==
  \/ config.timezone.userTimezones.zone[u] = NoTz
  \/ config.timezone.userTimezones.zone[u] = BadTz
  \/ /\ config.timezone.workingHours.defined
     /\ tzHours[u] # NoHour
     /\ config.timezone.workingHours.start <= tzHours[u]
     /\ tzHours[u] < config.timezone.workingHours.end

\* what left the timezone step is, in order, what entered it and is kept by
\* (a), (b) or (c); everything that entered it when the filter is disabled
TimezoneKeptAsClaimed ==
  IF config.timezone.enabled
  THEN /\ Range(candidates) \subseteq Range(afterExclude)
       /\ \A u \in Range(afterExclude) : u \in Range(candidates) <=> ClaimedKept(u)
       /\ \A i, j \in 1..Len(candidates) :
            i < j => \E k, l \in 1..Len(afterExclude) :
                       k < l /\ afterExclude[k] = candidates[i]
                             /\ afterExclude[l] = candidates[j]
  ELSE candidates = afterExclude /\ tzHours = NoHours

\* C12: the timezone filter runs only when timezone.enabled is set; it then
\* returns, in their order, exactly the reviewers that have no timezone
\* recorded, or whose local hour h has start <= h < end, or whose recorded
\* timezone is invalid; it adds nobody.  When disabled the set is untouched.
C12_TimezoneFilter ==
  TimezoneStepTaken => ("userTimezones" \notin failed /\ TimezoneKeptAsClaimed)

\* with both keys in the configuration the filter is as C12 says
TimezoneFilterWithBothKeys ==
  (/\ TimezoneStepTaken
   /\ config.timezone.workingHours.defined
   /\ config.timezone.userTimezones.defined)
    => ("userTimezones" \notin failed /\ TimezoneKeptAsClaimed)

\* without workingHours a reviewer with a valid timezone is kept whatever
\* the hour, with the warning of line 238
TimezoneKeptOutsideHours ==
  /\ AfterTimezone /\ config.timezone.enabled
  /\ ~config.timezone.workingHours.defined
  /\ \E u \in Range(candidates) :
       config.timezone.userTimezones.zone[u] \notin {NoTz, BadTz}
  /\ "Invalid timezone" \in warnings

\* without userTimezones the filter throws and the run fails, although
\* nobody has a timezone recorded
TimezoneFilterLost ==
  /\ pc = "done" /\ failed = {"userTimezones"}
  /\ afterExclude # <<>> /\ candidates = <<>> /\ permIdx = 0

\* ------------------------------------------- getCodeOwners on its own
OwnerPaths == {<<"a">>, <<"b">>, <<"a", "b">>, <<"a", "/", "b">>, <<"b", "/", "a">>, <<"a", "/", "a", "/", "b">>,
               <<".", "a">>, PathApiX, PathReadme}

OwnerPatterns ==
  { <<"a", "/">>,                 \* directory
    <<"b", "/">>,                 \* directory
    <<"a">>,                      \* exact
    <<"a", "/", "b">>,            \* exact
    <<"*">>,                      \* glob, one segment
    <<"a", "/", "*">>,            \* glob below a directory
    <<"*", "*", "/", "b">>,       \* glob with a globstar
    <<"*", ".", "m", "d">>,       \* glob on the extension
    <<"*", ".", "{", "j", "s", ",", "m", "d", "}">>,  \* glob with braces
    <<"!", "*", ".", "m", "d">>,  \* negated glob
    <<"#", "*">>,                 \* glob that reads as a comment
    <<"?", "/", "*">>,            \* glob with a question mark
    <<"a", "*", "\\", "|", "b">>,  \* glob with an escaped bar
    <<"[", "\\", "^", "a", "]", "*">>,  \* glob with an escaped caret in a class
    <<"[", "[", ":", "g", "r", "a", "p", "h", ":", "]", "a", "]", "*">>,  \* named class and a member
    <<"[", "[", ":", "a", "l", "p", "h", "a", ":", "]", "]", "-", "*">>,  \* named class, then '-'
    <<"*", "{", "1", ".", ".", "2", ".", ".", "0", "}">> }  \* sequence with a step of 0

OwnerLists == { <<"alice">>, <<"bob", "alice">>, <<"carol", "carol">> }

\* codeOwners objects: a JSON object has every key once
OwnerMaps ==
  {m \in SeqsUpTo([pattern : OwnerPatterns, owners : OwnerLists], MaxPatterns) :
     \A i, j \in 1..Len(m) : i # j => m[i].pattern # m[j].pattern}

InitOwners ==
  /\ PipelineInit
  /\ BlameIdle
  /\ ownFile \in OwnerPaths
  /\ ownMap \in OwnerMaps
  /\ ownResult = <<>>
  /\ ownDone = FALSE
  /\ ownOutcome = ""

\* lines 114-137
CallGetCodeOwners ==
  /\ ownFile # <<>>
  /\ ownOutcome = ""
  /\ \E r \in {getCodeOwners(ownFile, ownMap)} :
         /\ ownOutcome' = r.kind
         /\ ownDone' = (r.kind = "returns")
         /\ ownResult' = r.value
  /\ UNCHANGED <<pc, eventVars, cfgVars, listCalls, files, reviewers, blameVars,
                 snapVars, permVars, outVars, logVars, ownFile, ownMap, blVars>>

NextOwners == CallGetCodeOwners

SpecOwners == InitOwners /\ [][NextOwners]_vars

\* a pattern matches a path: by glob when it has a wildcard, else as a
\* prefix when it ends in '/', else only when equal
ClaimedMatch(path, pattern) ==
  IF \E k \in 1..Len(pattern) : pattern[k] = "*"
  THEN minimatch(path, pattern).value
  ELSE IF pattern[Len(pattern)] = "/"
       THEN /\ Len(path) >= Len(pattern)
            /\ \A k \in 1..Len(pattern) : path[k] = pattern[k]
       ELSE path = pattern

\* the owners of the patterns of the mapping that match the path
ClaimedOwners ==
  UNION {Range(ownMap[i].owners) :
           i \in {k \in 1..Len(ownMap) : ClaimedMatch(ownFile, ownMap[k].pattern)}}

\* C13: for every path and mapping the call of getCodeOwners returns, and
\* what it returns is, without duplicates, exactly the owners of the
\* patterns that match the path (glob for a wildcard pattern, prefix for a
\* pattern ending in '/', equality otherwise); nobody when no pattern matches.
C13_OwnersOfMatchingPatterns ==
  ownOutcome # "" =>
    /\ ownOutcome = "returns"
    /\ \A i, j \in 1..Len(ownResult) : i # j => ownResult[i] # ownResult[j]
    /\ Range(ownResult) = ClaimedOwners

\* what the code does keep: a call that returns has returned, without
\* duplicates, exactly the owners of the patterns that minimatch, the prefix
\* test or the equality test accepted
OwnersWhenReturned ==
  ownDone =>
    /\ ownOutcome = "returns"
    /\ \A i, j \in 1..Len(ownResult) : i # j => ownResult[i] # ownResult[j]
    /\ Range(ownResult) = ClaimedOwners

\* a call that does not return: it threw the SyntaxError of a regular
\* expression, or the process was aborted inside the brace expansion
OwnersCallLost == ownOutcome \in {"throws", "aborts"} /\ ~ownDone /\ ownResult = <<>>

\* --------------------------------------- getBlameReviewers on its own
BlameRangeLists ==
  SeqsUpTo([login : BlameLogins, age : {0, 1, 2}], MaxBlameRanges)

InitBlame ==
  /\ PipelineInit
  /\ OwnersIdle
  /\ blRanges \in BlameRangeLists
  /\ blAuthor \in {"alice", "dave"}
  /\ blResult = <<>>
  /\ blDone = FALSE

\* lines 140-209 for a response that carries ranges
CallGetBlameReviewers ==
  /\ blAuthor # ""
  /\ ~blDone
  /\ blResult' = getBlameReviewers([kind |-> "ranges", message |-> "",
                                    ranges |-> blRanges], blAuthor)
  /\ blDone' = TRUE
  /\ warnings' = IF FilterThrows(blRanges)
                 THEN warnings \cup {"Could not get blame"}
                 ELSE warnings
  /\ UNCHANGED <<pc, eventVars, cfgVars, listCalls, files, reviewers, blameVars,
                 snapVars, permVars, outVars, errors, failed, ownVars, blRanges,
                 blAuthor>>

NextBlame == CallGetBlameReviewers

SpecBlame == InitBlame /\ [][NextBlame]_vars

\* a range whose author may be proposed: it has an account login that is
\* not the PR author's
EligibleRange(i) == blRanges[i].login \notin {NoUser, NullAuthor, blAuthor}

\* range i is met before range j when walking in ascending age order
MetBefore(i, j) ==
  \/ blRanges[i].age < blRanges[j].age
  \/ (blRanges[i].age = blRanges[j].age /\ i < j)

\* the eligible ranges whose login is not in seen, and the first one met
Fresh(seen) == {i \in 1..Len(blRanges) : EligibleRange(i) /\ blRanges[i].login \notin seen}
FirstFresh(seen) ==
  blRanges[CHOOSE i \in Fresh(seen) : \A j \in Fresh(seen) \ {i} : MetBefore(i, j)].login

FirstTwoEligible ==
  IF Fresh({}) = {} THEN <<>>
  ELSE LET first == FirstFresh({})
       IN  IF Fresh({first}) = {} THEN <<first>>
           ELSE <<first, FirstFresh({first})>>

\* C14: the blame resolver returns at most two usernames, without
\* duplicates, never the PR author and never a range without an account
\* login: exactly the first two distinct eligible authors met in ascending
\* age order (all of them when there are fewer than two).
C14_FirstTwoRecentAuthors ==
  blDone =>
    /\ Len(blResult) <= 2
    /\ \A i, j \in 1..Len(blResult) : i # j => blResult[i] # blResult[j]
    /\ \A i \in 1..Len(blResult) : blResult[i] \notin {blAuthor, NoUser, NullAuthor}
    /\ blResult = FirstTwoEligible

\* ------------------------------------------------- ordering and calls
IsPrefix(s, t) == Len(s) <= Len(t) /\ SubSeq(t, 1, Len(s)) = s

\* the first k elements of s; none when k is not positive
FirstK(s, k) == IF k <= 0 THEN <<>> ELSE SubSeq(s, 1, Min2(k, Len(s)))

\* the candidates in insertion order that survive the author exclusion, the
\* timezone filter and the permission filter
Survivors ==
  SelectSeq(afterDefaults, LAMBDA u :
    /\ (config.excludeAuthors => u # prAuthor)
    /\ u \in Range(candidates)
    /\ u \in granted)

\* C15: the reviewers requested are the first maxReviewers of the candidates
\* that survive the exclusion and the two filters, in insertion order:
\* ownership reviewers, then blame reviewers, then defaults.
C15_RequestedInInsertionOrder ==
  FiltersDone =>
    /\ IsPrefix(afterOwners, afterBlame)
    /\ IsPrefix(afterBlame, afterDefaults)
    /\ finalReviewers = FirstK(Survivors, config.maxReviewers)
    /\ \A i \in 1..Len(requestCalls) : requestCalls[i].reviewers = finalReviewers
    /\ ((pc = "done" /\ requestCalls = <<>>) => finalReviewers = <<>>)

\* C16: a blame lookup is issued only when the ownership stage ended below
\* minReviewers, for a file with status modified, while the set is below
\* maxReviewers; lookups follow the file-list order, one file at most once.
C16_BlameOnlyWhenNeeded ==
  [][blameCalls' # blameCalls =>
       /\ Len(afterOwners) < config.minReviewers
       /\ fileIdx \in 1..Len(files)
       /\ files[fileIdx].status = "modified"
       /\ Len(reviewers) < config.maxReviewers
       /\ blameCalls' = Append(blameCalls, fileIdx)
       /\ \A i \in 1..Len(blameCalls) : blameCalls[i] < fileIdx]_vars

\* C16 witness: the second file is modified but was passed over because the
\* lookup for the first file had filled the set up to maxReviewers.
C16_Witness ==
  /\ pc = "blame"
  /\ Len(files) = 2
  /\ fileIdx = 3
  /\ files[2].status = "modified"
  /\ blameCalls = <<1>>
  /\ Len(reviewers) >= config.maxReviewers
  /\ config.maxReviewers >= 1

NoDuplicates(s) == \A i, j \in 1..Len(s) : i # j => s[i] # s[j]

\* C17: no call is repeated: at most one blame lookup per changed file, one
\* permission lookup per candidate (exactly one each once the filter is
\* over), at most one membership check per candidate, and at most one
\* listFiles, requestReviewers and createComment call.
C17_NoRetries ==
  /\ listCalls <= 1
  /\ NoDuplicates(blameCalls)
  /\ Range(blameCalls) \subseteq 1..Len(files)
  /\ IsPrefix(permCalls, candidates)
  /\ NoDuplicates(permCalls)
  /\ (FiltersDone => permCalls = candidates)
  /\ NoDuplicates(memberCalls)
  /\ Range(memberCalls) \subseteq Range(permCalls)
  /\ Len(requestCalls) <= 1
  /\ Len(commentCalls) <= 1

\* C17 witness: a blame lookup and a permission lookup failed and the
\* requestReviewers call threw; each was issued once.
C17_Witness ==
  /\ pc = "done"
  /\ "Could not get blame" \in warnings
  /\ "Error checking reviewer" \in warnings
  /\ Len(blameCalls) = 1
  /\ Len(candidates) >= 2 /\ permCalls = candidates
  /\ Len(requestCalls) = 1 /\ ~Requested
  /\ commentCalls = <<>>

\* C18: requestReviewers is called only when every candidate has had its
\* permission lookup; createComment is called only after requestReviewers
\* returned, never after it failed, and with the reviewers that were requested.
C18_WriteCallOrder ==
  /\ requestCalls # <<>> => (permCalls = candidates /\ pc \in {"comment", "done"})
  /\ commentCalls # <<>> =>
       /\ Requested
       /\ commentCalls[1].reviewers = requestCalls[1].reviewers
  /\ (requestCalls # <<>> /\ ~Requested) => commentCalls = <<>>

\* C18 witness: two reviewers were requested after a third candidate had
\* been dropped by its lookup, and the comment names the same two.
C18_Witness ==
  /\ pc = "done"
  /\ Len(candidates) = 3
  /\ Requested /\ Commented
  /\ Len(requestCalls[1].reviewers) = 2
  /\ commentCalls[1].reviewers = requestCalls[1].reviewers

====
